---------------------------- MODULE Spec2Model ----------------------------
(***************************************************************************)
(* Model of the graph store (src/src/lib/store.ts), the type filter of the *)
(* browse panel (src/src/components/BrowsePanel.tsx), the derived views    *)
(* (src/src/lib/queryProcessor.ts, GraphVisualization/types.ts), the       *)
(* normalizer (src/src/lib/neo4jConnector.ts), the tree layout             *)
(* (GraphVisualization/graphUtils.ts), the intent resolver, the driver     *)
(* management and the node expansion of graph-viz-platform.                *)
(*                                                                         *)
(* Ten specifications share the variables; each one holds the variables    *)
(* of the others at their idle values:                                     *)
(*   Spec          the store under repeated addNodesToGraph calls          *)
(*   SpecFilter    load, type filter, merge and reset on the store         *)
(*   SpecCommute   two fragments merged in both orders                     *)
(*   SpecNeighbor  filterGraphByEntity, one turn of its loop per step      *)
(*   SpecView      the view functions and collapseNode, applied to a graph *)
(*   SpecNormalize transformNeo4jToGraph, one record per step              *)
(*   SpecLayout    initializeTreeLayout and applyTreeLayout on a graph     *)
(*   SpecQuery     processQuery, local and with the QA proxy               *)
(*   SpecDriver    initDriver and its callers, interleaved at their awaits *)
(*   SpecExpand    handleNodeExpansion calls in flight over the store      *)
(***************************************************************************)
EXTENDS Naturals, Integers, Sequences, FiniteSets

VARIABLES
    graphData,          \* store.ts:44  current graph (isNull = TRUE models null)
    originalGraphData,  \* store.ts:45  unfiltered baseline
    lastF,              \* argument of the last addNodesToGraph call
    prevData,           \* graphData as the last addNodesToGraph call found it
    calls,              \* number of addNodesToGraph calls made
    threw,              \* the last call ended with an uncaught TypeError
    nodeTypes,          \* BrowsePanel.tsx:18
    selectedNodeTypes,  \* BrowsePanel.tsx:19
    loaded,             \* nodes and links loaded or accepted by a merge
    steps,              \* number of panel operations made
    g12, g21,           \* SpecCommute: the store of the two runs
    cF1, cF2,           \* SpecCommute: the two fragments
    cG,                 \* SpecCommute: the graph both runs start from
    cpc,                \* SpecCommute: calls made by each run
    nbLinks,            \* SpecNeighbor: graphData.links
    centralNodeId,      \* SpecNeighbor: argument
    maxDistance,        \* SpecNeighbor: argument
    includedNodeIds,    \* queryProcessor.ts:104
    nodesToProcess,     \* queryProcessor.ts:105
    includedLinks,      \* queryProcessor.ts:106
    nbpc,               \* SpecNeighbor: "idle", "call", "loop" or "done"
    qGraph,             \* SpecView: the graph handed to the view functions
    qCall,              \* SpecView: the function called and its arguments
    qView,              \* SpecView: the GraphData a view function returned
    qDescendants,       \* SpecView: the ids findDescendantNodes returned
    qUpdate,            \* SpecView: what collapseNode gave to updateGraphData
    records,            \* SpecNormalize: the argument of transformNeo4jToGraph
    recordIndex,        \* SpecNormalize: the record records.forEach is at
    nodesMap,           \* neo4jConnector.ts:125  nodes: the values of the Map, in order
    linksMap,           \* neo4jConnector.ts:126  links: the entries of the Map, in order
    failed,             \* SpecNormalize: an error is on its way to the outer catch
    normalized,         \* SpecNormalize: what transformNeo4jToGraph returned
    normpc,             \* SpecNormalize: "idle", "loop" or "done"
    layoutGraph,        \* SpecLayout: graphRef.current.graphData(), nodes mutated in place
    dimensions,         \* SpecLayout: the canvas, width and height
    layoutBefore,       \* SpecLayout: the nodes as the last layout call found them
    layoutOp,           \* SpecLayout: the last layout function called, or "none"
    layoutOverflow,     \* SpecLayout: the last call ended with a RangeError (call stack)
    layoutCalls,        \* SpecLayout: number of layout calls made
    queryText,          \* SpecQuery: the query handed to processQuery, a text
    sampleData,         \* SpecQuery: what generateSampleData returns
    apiReply,           \* SpecQuery: what the fetch of /api/query came to
    queryResult,        \* SpecQuery: how the promise of processQuery settled
    driver,             \* part_003:21  0 is null, n the n-th driver created
    lastConnectionAttempt, \* part_003:22
    nowMs,              \* SpecDriver: what Date.now() returns
    creations,          \* SpecDriver: the times at which initDriver created a driver
    lastInit,           \* SpecDriver: the last initDriver call, what it found and did
    workers,            \* SpecDriver: the async calls in progress and what they wait for
    expansions,         \* SpecExpand: the handleNodeExpansion calls, what each fetched and where it is
    graphBefore         \* SpecExpand: the graph of the store before the expansions

storeVars   == <<graphData, originalGraphData, lastF, prevData, calls, threw>>
panelVars   == <<nodeTypes, selectedNodeTypes, loaded, steps>>
commuteVars == <<g12, g21, cF1, cF2, cG, cpc>>
nbVars      == <<nbLinks, centralNodeId, maxDistance, includedNodeIds,
                 nodesToProcess, includedLinks, nbpc>>
viewVars    == <<qGraph, qCall, qView, qDescendants, qUpdate>>
normVars    == <<records, recordIndex, nodesMap, linksMap, failed, normalized,
                 normpc>>
layoutVars  == <<layoutGraph, dimensions, layoutBefore, layoutOp, layoutOverflow,
                 layoutCalls>>
queryVars   == <<queryText, sampleData, apiReply, queryResult>>
driverVars  == <<driver, lastConnectionAttempt, nowMs, creations, lastInit, workers>>
expandVars  == <<expansions, graphBefore>>
vars        == <<storeVars, panelVars, commuteVars, nbVars, viewVars, normVars, layoutVars, queryVars, driverVars, expandVars>>

---------------------------------------------------------------------------
(* Bounds *)

MaxCalls     == 2
MaxFragNodes == 2
MaxFragLinks == 2

SeqsUpTo(S, n) == UNION {[1..k -> S] : k \in 0..n}

Range(s) == {s[i] : i \in 1..Len(s)}

---------------------------------------------------------------------------
(* Values *)

\* A missing id or label (JavaScript undefined).  A template literal prints
\* undefined as the text "undefined", and no id of the model is that text.
UNDEF == "undefined"

\* link.source / link.target: a bare id, an embedded node object, null or
\* missing.
StrEnd(i) == [k |-> "str", id |-> i]
ObjEnd(i) == [k |-> "obj", id |-> i]
NullEnd   == [k |-> "null", id |-> UNDEF]
UndefEnd  == [k |-> "undef", id |-> UNDEF]

Node(i, t)    == [id |-> i, type |-> t]
Link(s, t, l) == [source |-> s, target |-> t, label |-> l]

\* GraphData | null
NullGraph     == [isNull |-> TRUE, nodes |-> <<>>, links |-> <<>>]
Graph(ns, ls) == [isNull |-> FALSE, nodes |-> ns, links |-> ls]

NodeVals ==
    { Node("a", "Table"), Node("a", "Column"), Node("b", "Table"),
      Node(UNDEF, "Table") }

LinkVals ==
    { Link(StrEnd("a"), StrEnd("b"), "X"),
      Link(ObjEnd("b"), ObjEnd("a"), "X"),
      Link(NullEnd,     StrEnd("b"), "X"),
      Link(StrEnd("a"), UndefEnd,    UNDEF) }

Fragments ==
    { Graph(ns, ls) : ns \in SeqsUpTo(NodeVals, MaxFragNodes),
                      ls \in SeqsUpTo(LinkVals, MaxFragLinks) }

---------------------------------------------------------------------------
(* store.ts: addNodesToGraph *)

\* Array.prototype.sort() on two ids: compares the ids as strings by code
\* unit and puts undefined last.  IdOrder lists the ids of the model in that
\* order ('-' sorts before every letter).
IdOrder == <<"a", "a-b", "b", "b-c", "c", UNDEF>>
IdRank(i) == CHOOSE n \in 1..Len(IdOrder) : IdOrder[n] = i
\* The pair left in the order given: a key that depends on the direction.
SortPair_Unsorted(x, y) == <<x, y>>

SortPair(x, y) == IF IdRank(y) < IdRank(x) THEN <<y, x>> ELSE <<x, y>>

\* typeof null === 'object', so null.id raises a TypeError
NormalizeThrows(link) == link.source.k = "null" \/ link.target.k = "null"

normalizeLink(link) ==
    [source |-> link.source.id,
     target |-> link.target.id,
     label  |-> IF link.label = UNDEF THEN "" ELSE link.label]

linkKey(link) ==
    LET n  == normalizeLink(link)
        ab == SortPair(n.source, n.target)
    IN  ab[1] \o "-" \o ab[2] \o "-" \o n.label

NodeIds(g) == {g.nodes[i].id : i \in 1..Len(g.nodes)}

\* Every incoming node appended, its id present or not.
updatedNodes_NoFilter(cur, new) == cur.nodes \o new.nodes

\* The filter without its negation: only incoming nodes already present pass.
updatedNodes_InvertedFilter(cur, new) ==
    LET existingNodeIds == NodeIds(cur)
    IN  cur.nodes \o SelectSeq(new.nodes, LAMBDA n : n.id \in existingNodeIds)

updatedNodes(cur, new) ==
    LET existingNodeIds == NodeIds(cur)
    IN  cur.nodes \o SelectSeq(new.nodes, LAMBDA n : n.id \notin existingNodeIds)

existingLinks(cur) == {linkKey(cur.links[i]) : i \in 1..Len(cur.links)}

\* Endpoints looked up among the current nodes, not the combined ones.
newLinks_StaleIds(cur, new) ==
    LET allNodeIds == NodeIds(cur)
        existing   == existingLinks(cur)
        Accept(l)  ==
            /\ normalizeLink(l).source \in allNodeIds
            /\ normalizeLink(l).target \in allNodeIds
            /\ linkKey(l) \notin existing
    IN  SelectSeq(new.links, Accept)

\* existingLinks is filled from the current links only (store.ts:92-100); the
\* loop over the incoming links never adds to it (store.ts:122-125).
newLinks(cur, new) ==
    LET allNodeIds == {n.id : n \in Range(updatedNodes(cur, new))}
        existing   == existingLinks(cur)
        Accept(l)  ==
            /\ normalizeLink(l).source \in allNodeIds
            /\ normalizeLink(l).target \in allNodeIds
            /\ linkKey(l) \notin existing
    IN  SelectSeq(new.links, Accept)

\* The call raises when normalizeLink meets a null endpoint, in the current
\* links or in the incoming ones; set() has not run yet.
AddThrows(cur, new) ==
    /\ ~cur.isNull
    /\ \E l \in Range(cur.links) \cup Range(new.links) : NormalizeThrows(l)

\* The graph the call hands to set(), when it does not raise.
MergeResult(cur, new) ==
    IF cur.isNull THEN new
    ELSE Graph(updatedNodes(cur, new), cur.links \o newLinks(cur, new))

\* The store's graph after the call.
AfterAdd(cur, new) ==
    IF AddThrows(cur, new) THEN cur ELSE MergeResult(cur, new)

AddNodesToGraph(newData) ==
    LET raised == AddThrows(graphData, newData)
        result == MergeResult(graphData, newData)
    IN  /\ calls' = calls + 1
        /\ lastF' = newData
        /\ prevData' = graphData
        /\ threw' = raised
        /\ graphData' = IF raised THEN graphData ELSE result
        /\ originalGraphData' = IF raised THEN originalGraphData ELSE result

---------------------------------------------------------------------------
(* Idle values of the variables a specification does not use *)

PanelIdle ==
    /\ nodeTypes = {}
    /\ selectedNodeTypes = {}
    /\ loaded = [nodes |-> {}, links |-> {}]
    /\ steps = 0

CommuteIdle ==
    /\ g12 = NullGraph /\ g21 = NullGraph
    /\ cF1 = NullGraph /\ cF2 = NullGraph /\ cG = NullGraph
    /\ cpc = 0

NbIdle ==
    /\ nbLinks = <<>>
    /\ centralNodeId = "A"
    /\ maxDistance = 0
    /\ includedNodeIds = {}
    /\ nodesToProcess = <<>>
    /\ includedLinks = <<>>
    /\ nbpc = "idle"

NoCall == [op |-> "none", x |-> "-", y |-> "-", n |-> 0,
           resolved |-> FALSE, ref |-> FALSE]

ViewIdle ==
    /\ qGraph = [nodes |-> <<>>, links |-> <<>>]
    /\ qCall = NoCall
    /\ qView = [nodes |-> <<>>, links |-> <<>>]
    /\ qDescendants = <<>>
    /\ qUpdate = [called |-> FALSE, data |-> [nodes |-> <<>>, links |-> <<>>]]

NormalizeIdle ==
    /\ records = <<>>
    /\ recordIndex = 0
    /\ nodesMap = <<>>
    /\ linksMap = <<>>
    /\ failed = FALSE
    /\ normalized = [nodes |-> <<>>, links |-> <<>>]
    /\ normpc = "idle"

LayoutIdle ==
    /\ layoutGraph = [nodes |-> <<>>, links |-> <<>>]
    /\ dimensions = [width |-> 0, height |-> 0]
    /\ layoutBefore = <<>>
    /\ layoutOp = "none"
    /\ layoutOverflow = FALSE
    /\ layoutCalls = 0

QueryIdle ==
    /\ queryText = <<>>
    /\ sampleData = [nodes |-> <<>>, links |-> <<>>]
    /\ apiReply = [kind |-> "none"]
    /\ queryResult = [state |-> "pending"]

DriverIdle ==
    /\ driver = 0
    /\ lastConnectionAttempt = 0
    /\ nowMs = 0
    /\ creations = <<>>
    /\ lastInit = [outcome |-> "none"]
    /\ workers = <<>>

ExpandIdle ==
    /\ expansions = <<>>
    /\ graphBefore = NullGraph

StoreInit ==
    /\ graphData = NullGraph
    /\ originalGraphData = NullGraph
    /\ lastF = NullGraph
    /\ prevData = NullGraph
    /\ calls = 0
    /\ threw = FALSE

---------------------------------------------------------------------------
(* Spec: the store under repeated addNodesToGraph calls *)

Init == StoreInit /\ PanelIdle /\ CommuteIdle /\ NbIdle /\ ViewIdle /\ NormalizeIdle /\ LayoutIdle /\ QueryIdle /\ DriverIdle /\ ExpandIdle

Merge ==
    /\ calls < MaxCalls
    /\ \E newData \in Fragments : AddNodesToGraph(newData)
    /\ UNCHANGED <<panelVars, commuteVars, nbVars, viewVars, normVars, layoutVars, queryVars, driverVars, expandVars>>

Next == Merge

Spec == Init /\ [][Next]_vars

(* Claims about the store under repeated merges *)

NodeSet(g) == Range(g.nodes)
LinkSet(g) == Range(g.links)
LinkKeys(g) == {linkKey(l) : l \in LinkSet(g)}

\* The endpoint names a node of g.
HasEndpoint(g, e) == e.k # "null" /\ e.id \in NodeIds(g)

Called == calls >= 1

\* C1: calling addNodesToGraph(F) again right after addNodesToGraph(F) leaves
\* the store's graph with the same set of nodes and the same set of links,
\* whether the first call found the store null or not.
C1_Idempotent ==
    Called =>
        /\ NodeSet(AfterAdd(graphData, lastF)) = NodeSet(graphData)
        /\ LinkSet(AfterAdd(graphData, lastF)) = LinkSet(graphData)

\* The first call found a graph, accepted a node and a link of the fragment.
C1_Witness ==
    /\ Called /\ ~prevData.isNull /\ ~threw
    /\ Len(graphData.nodes) > Len(prevData.nodes)
    /\ Len(graphData.links) > Len(prevData.links)

\* C2: after any sequence of addNodesToGraph calls from the null store, every
\* link of graphData has its source id and its target id among the node ids.
C2_NoDanglingEdges ==
    \A l \in LinkSet(graphData) :
        HasEndpoint(graphData, l.source) /\ HasEndpoint(graphData, l.target)

\* C3: after any sequence of addNodesToGraph calls from the null store, no two
\* nodes of graphData share an id and no two links share a direction-agnostic
\* key.
C3_NoDuplicates ==
    /\ \A i, j \in 1..Len(graphData.nodes) :
           graphData.nodes[i].id = graphData.nodes[j].id => i = j
    /\ \A i, j \in 1..Len(graphData.links) :
           (/\ ~NormalizeThrows(graphData.links[i])
            /\ ~NormalizeThrows(graphData.links[j])
            /\ linkKey(graphData.links[i]) = linkKey(graphData.links[j]))
           => i = j

\* A link between the same two ids with the same label, in either direction.
SameEdgeReversed(l, m) ==
    /\ l.source.k \in {"str", "obj"} /\ l.target.k \in {"str", "obj"}
    /\ m.source.k \in {"str", "obj"} /\ m.target.k \in {"str", "obj"}
    /\ l.source.id = m.target.id /\ l.target.id = m.source.id
    /\ l.source.id # l.target.id
    /\ l.label = m.label

\* The current graph had a link B-A and the fragment brought A-B, same label.
ReversedCase ==
    /\ Called /\ ~prevData.isNull /\ ~threw
    /\ \E l \in LinkSet(lastF) : \E m \in LinkSet(prevData) :
           SameEdgeReversed(l, m)

\* C4: when the current graph has a link between B and A with label X, merging
\* a fragment with a link from A to B with label X (ids or embedded node
\* objects) adds no such link.
C4_DirectionAgnostic ==
    (Called /\ ~prevData.isNull /\ ~threw) =>
        \A l \in LinkSet(lastF) :
            (\E m \in LinkSet(prevData) : SameEdgeReversed(l, m)) =>
                \A i \in Len(prevData.links) + 1 .. Len(graphData.links) :
                    graphData.links[i] # l

\* The reversed link arrived with both its nodes present, once as ids and
\* once as embedded objects.
C4_Witness ==
    /\ ReversedCase
    /\ \E l \in LinkSet(lastF) : \E m \in LinkSet(prevData) :
           /\ SameEdgeReversed(l, m)
           /\ l.source.k = "obj"
           /\ l.source.id \in NodeIds(graphData)
           /\ l.target.id \in NodeIds(graphData)

\* C6: addNodesToGraph never raises, whatever the fragment holds.
C6_NeverFails == ~threw

\* C7: on a non-empty current graph the node list is the current list followed
\* by nodes of the fragment whose id was absent, the link list is the current
\* list followed by links of the fragment; a node whose id was present keeps
\* its record and nothing already there is removed or altered.
IsSubSeq(sub, s) ==
    \E f \in [1..Len(sub) -> 1..Len(s)] :
        /\ \A i \in 1..Len(sub) : s[f[i]] = sub[i]
        /\ \A i, j \in 1..Len(sub) : i < j => f[i] < f[j]

Appended(s, n) == SubSeq(s, n + 1, Len(s))

C7_KeepsExisting ==
    (Called /\ ~prevData.isNull) =>
        /\ SubSeq(graphData.nodes, 1, Len(prevData.nodes)) = prevData.nodes
        /\ SubSeq(graphData.links, 1, Len(prevData.links)) = prevData.links
        /\ IsSubSeq(Appended(graphData.nodes, Len(prevData.nodes)), lastF.nodes)
        /\ IsSubSeq(Appended(graphData.links, Len(prevData.links)), lastF.links)
        /\ \A n \in Range(Appended(graphData.nodes, Len(prevData.nodes))) :
               n.id \notin NodeIds(prevData)
        /\ \A n \in Range(lastF.nodes) :
               (~threw /\ n.id \notin NodeIds(prevData)) => n \in NodeSet(graphData)

\* The fragment brought a different record for an id already present, and a
\* node with a new id.
C7_Witness ==
    /\ Called /\ ~prevData.isNull /\ ~threw
    /\ \E n \in Range(lastF.nodes) : \E m \in Range(prevData.nodes) :
           n.id = m.id /\ n # m
    /\ Len(graphData.nodes) > Len(prevData.nodes)

---------------------------------------------------------------------------
(* SpecFilter: load, type filter, expansion and reset on the store *)

MaxSteps == 4

PanelNodeVals ==
    { Node("a", "Table"), Node("b", "Column"), Node("c", "Table") }

PanelLinkVals ==
    { Link(StrEnd("a"), StrEnd("b"), "X"),
      Link(StrEnd("a"), StrEnd("c"), "X") }

\* What the loader and expandNode return: at least one node, no id twice, no
\* link twice, every link between two of its nodes.
WellFormed(g) ==
    /\ Len(g.nodes) >= 1
    /\ \A i, j \in 1..Len(g.nodes) : g.nodes[i].id = g.nodes[j].id => i = j
    /\ \A i, j \in 1..Len(g.links) : g.links[i] = g.links[j] => i = j
    /\ \A l \in Range(g.links) :
           l.source.id \in NodeIds(g) /\ l.target.id \in NodeIds(g)

PanelGraphs ==
    { g \in { Graph(ns, ls) : ns \in SeqsUpTo(PanelNodeVals, MaxFragNodes),
                              ls \in SeqsUpTo(PanelLinkVals, MaxFragLinks) } :
        WellFormed(g) }

\* BrowsePanel.tsx handleLoadDomainGraph, the path that stores a graph
LoadDomainGraph(g) ==
    /\ steps < MaxSteps
    /\ steps' = steps + 1
    /\ graphData' = g
    /\ originalGraphData' = g
    /\ nodeTypes' = {n.type : n \in Range(g.nodes)}
    /\ selectedNodeTypes' = {n.type : n \in Range(g.nodes)}
    /\ loaded' = [nodes |-> Range(g.nodes), links |-> Range(g.links)]
    /\ UNCHANGED <<lastF, prevData, calls, threw>>

\* BrowsePanel.tsx toggleNodeType
ToggleNodeType(type) ==
    /\ steps < MaxSteps
    /\ steps' = steps + 1
    /\ selectedNodeTypes' =
           IF type \in selectedNodeTypes THEN selectedNodeTypes \ {type}
           ELSE selectedNodeTypes \cup {type}
    /\ UNCHANGED <<storeVars, nodeTypes, loaded>>

\* store.ts resetToOriginalData, as a function of the store
AfterReset(cur, orig) == IF orig.isNull THEN cur ELSE orig

ResetToOriginalData ==
    /\ steps < MaxSteps
    /\ steps' = steps + 1
    /\ graphData' = AfterReset(graphData, originalGraphData)
    /\ UNCHANGED <<originalGraphData, lastF, prevData, calls, threw,
                   nodeTypes, selectedNodeTypes, loaded>>

\* BrowsePanel.tsx applyFilters: the graph it leaves in graphData
FilteredGraph(g, selected) ==
    LET filteredNodes == SelectSeq(g.nodes, LAMBDA n : n.type \in selected)
        nodeIds       == {filteredNodes[i].id : i \in 1..Len(filteredNodes)}
        filteredLinks ==
            SelectSeq(g.links,
                      LAMBDA l : l.source.id \in nodeIds /\ l.target.id \in nodeIds)
    IN  Graph(filteredNodes, filteredLinks)

ApplyFilters ==
    LET reset == AfterReset(graphData, originalGraphData)
    IN  /\ steps < MaxSteps
        /\ steps' = steps + 1
        /\ graphData' =
               IF reset.isNull THEN reset
               ELSE IF Cardinality(selectedNodeTypes) = Cardinality(nodeTypes)
                    THEN reset
                    ELSE FilteredGraph(reset, selectedNodeTypes)
        /\ UNCHANGED <<originalGraphData, lastF, prevData, calls, threw,
                       nodeTypes, selectedNodeTypes, loaded>>

\* handleNodeExpansion hands the fetched fragment to addNodesToGraph
Expand(newData) ==
    /\ steps < MaxSteps
    /\ steps' = steps + 1
    /\ AddNodesToGraph(newData)
    /\ loaded' =
           IF graphData.isNull
           THEN [nodes |-> Range(newData.nodes), links |-> Range(newData.links)]
           ELSE [nodes |-> loaded.nodes \cup
                           Range(Appended(graphData'.nodes, Len(graphData.nodes))),
                 links |-> loaded.links \cup
                           Range(Appended(graphData'.links, Len(graphData.links)))]
    /\ UNCHANGED <<nodeTypes, selectedNodeTypes>>

FLoad   == (steps < MaxSteps /\ \E g \in PanelGraphs : LoadDomainGraph(g))
               /\ UNCHANGED <<commuteVars, nbVars, viewVars, normVars, layoutVars, queryVars, driverVars, expandVars>>
FToggle == (\E type \in nodeTypes : ToggleNodeType(type))
               /\ UNCHANGED <<commuteVars, nbVars, viewVars, normVars, layoutVars, queryVars, driverVars, expandVars>>
FApply  == ApplyFilters /\ UNCHANGED <<commuteVars, nbVars, viewVars, normVars, layoutVars, queryVars, driverVars, expandVars>>
FReset  == ResetToOriginalData /\ UNCHANGED <<commuteVars, nbVars, viewVars, normVars, layoutVars, queryVars, driverVars, expandVars>>
FExpand == (calls < MaxCalls /\ \E newData \in PanelGraphs : Expand(newData))
               /\ UNCHANGED <<commuteVars, nbVars, viewVars, normVars, layoutVars, queryVars, driverVars, expandVars>>

NextFilter == FLoad \/ FToggle \/ FApply \/ FReset \/ FExpand

SpecFilter == Init /\ [][NextFilter]_vars

\* C8: once a graph is loaded, after any sequence of filter applications and
\* merges the original baseline holds every node and link of the loaded graph
\* and of every fragment a merge accepted.
C8_FilterReversible ==
    /\ loaded.nodes \subseteq NodeSet(originalGraphData)
    /\ loaded.links \subseteq LinkSet(originalGraphData)

---------------------------------------------------------------------------
(* SpecCommute: two fragments merged into the same graph in both orders *)

MaxCNodes == 1
MaxCLinks == 1

CNodeVals == { Node("a", "Table"), Node("b", "Table") }

CLinkVals ==
    { Link(StrEnd("a"), StrEnd("b"), "X"),
      Link(StrEnd("b"), StrEnd("a"), "X") }

CFragments ==
    { Graph(ns, ls) : ns \in SeqsUpTo(CNodeVals, MaxCNodes),
                      ls \in SeqsUpTo(CLinkVals, MaxCLinks) }

InitCommute ==
    /\ StoreInit /\ PanelIdle /\ NbIdle /\ ViewIdle /\ NormalizeIdle /\ LayoutIdle /\ QueryIdle /\ DriverIdle /\ ExpandIdle
    /\ cG \in {NullGraph} \cup CFragments
    /\ cF1 \in CFragments
    /\ cF2 \in CFragments
    /\ g12 = cG
    /\ g21 = cG
    /\ cpc = 0

\* first call of each run: F1 in the one, F2 in the other
CFirst ==
    /\ cpc = 0
    /\ cpc' = 1
    /\ g12' = AfterAdd(g12, cF1)
    /\ g21' = AfterAdd(g21, cF2)
    /\ UNCHANGED <<cF1, cF2, cG, storeVars, panelVars, nbVars, viewVars, normVars, layoutVars, queryVars, driverVars, expandVars>>

\* second call of each run: the other fragment
CSecond ==
    /\ cpc = 1
    /\ cpc' = 2
    /\ g12' = AfterAdd(g12, cF2)
    /\ g21' = AfterAdd(g21, cF1)
    /\ UNCHANGED <<cF1, cF2, cG, storeVars, panelVars, nbVars, viewVars, normVars, layoutVars, queryVars, driverVars, expandVars>>

NextCommute == CFirst \/ CSecond

SpecCommute == InitCommute /\ [][NextCommute]_vars

\* unordered endpoint pair plus label
LogicalEdges(g) ==
    { [ends  |-> {normalizeLink(l).source, normalizeLink(l).target},
       label |-> normalizeLink(l).label] : l \in LinkSet(g) }

\* Every link of the fragment joins nodes of g or of the fragment itself.
SelfContained(g, f) ==
    \A l \in LinkSet(f) :
        /\ l.source.k # "null" /\ l.source.id \in NodeIds(g) \cup NodeIds(f)
        /\ l.target.k # "null" /\ l.target.id \in NodeIds(g) \cup NodeIds(f)

---------------------------------------------------------------------------
(* SpecNeighbor: queryProcessor.ts filterGraphByEntity *)

MaxNbLinks == 3
MaxRadius  == 2

\* graphData.nodes, by id
nbNodes == <<"A", "B", "C">>

NbLinkVals ==
    { [source |-> a, target |-> b, label |-> "REL"] :
          a \in Range(nbNodes), b \in Range(nbNodes) }

\* The link lists of a graph view: no two links join the same pair of nodes
\* under the same label.
NbLinkSeqs ==
    { ls \in SeqsUpTo(NbLinkVals, MaxNbLinks) :
        \A i, j \in 1..Len(ls) :
            ({ls[i].source, ls[i].target} = {ls[j].source, ls[j].target}
                 /\ ls[i].label = ls[j].label) => i = j }

\* The radius test off by one: nodes at the radius are expanded too.
Expandable_Inclusive(distance, maxDist) == distance <= maxDist

\* queryProcessor.ts:112  a dequeued node is expanded below the radius only
Expandable(distance, maxDist) == distance < maxDist

\* queryProcessor.ts:129-132
AlreadyIncluded(links, link) ==
    \E i \in 1..Len(links) :
        \/ links[i].source = link.source /\ links[i].target = link.target
        \/ links[i].source = link.target /\ links[i].target = link.source

\* queryProcessor.ts:114-136  the for loop over the links of the graph, from
\* link i on
RECURSIVE ScanLinksOf(_, _, _, _, _)
ScanLinksOf(links, i, currentNodeId, distance, st) ==
    IF i > Len(links) THEN st
    ELSE
        LET link == links[i]
            connectedNodeId ==
                IF link.source = currentNodeId THEN link.target
                ELSE IF link.target = currentNodeId THEN link.source
                ELSE "none"
            next ==
                IF connectedNodeId = "none" THEN st
                ELSE IF connectedNodeId \notin st.included
                THEN [included |-> st.included \cup {connectedNodeId},
                      queue    |-> Append(st.queue, <<connectedNodeId, distance + 1>>),
                      links    |-> Append(st.links, link)]
                ELSE IF ~AlreadyIncluded(st.links, link)
                THEN [st EXCEPT !.links = Append(st.links, link)]
                ELSE st
        IN  ScanLinksOf(links, i + 1, currentNodeId, distance, next)

\* the same loop over the links of SpecNeighbor
ScanLinks(i, currentNodeId, distance, st) ==
    ScanLinksOf(nbLinks, i, currentNodeId, distance, st)

InitNeighbor ==
    /\ StoreInit /\ PanelIdle /\ CommuteIdle /\ ViewIdle /\ NormalizeIdle /\ LayoutIdle /\ QueryIdle /\ DriverIdle /\ ExpandIdle
    /\ nbLinks \in NbLinkSeqs
    /\ centralNodeId \in Range(nbNodes)
    /\ maxDistance \in 0..MaxRadius
    /\ includedNodeIds = {}
    /\ nodesToProcess = <<>>
    /\ includedLinks = <<>>
    /\ nbpc = "call"

\* queryProcessor.ts:104-106
NbEnter ==
    /\ nbpc = "call"
    /\ nbpc' = "loop"
    /\ includedNodeIds' = {centralNodeId}
    /\ nodesToProcess' = <<(<<centralNodeId, 0>>)>>
    /\ includedLinks' = <<>>
    /\ UNCHANGED <<nbLinks, centralNodeId, maxDistance,
                   storeVars, panelVars, commuteVars, viewVars, normVars, layoutVars, queryVars, driverVars, expandVars>>

\* queryProcessor.ts:109-138  one turn of the while loop
NbStep ==
    /\ nbpc = "loop"
    /\ nodesToProcess # <<>>
    /\ LET currentNodeId == Head(nodesToProcess)[1]
           distance      == Head(nodesToProcess)[2]
           st0 == [included |-> includedNodeIds,
                   queue    |-> Tail(nodesToProcess),
                   links    |-> includedLinks]
           st1 == IF Expandable(distance, maxDistance)
                  THEN ScanLinks(1, currentNodeId, distance, st0)
                  ELSE st0
       IN  /\ includedNodeIds' = st1.included
           /\ nodesToProcess' = st1.queue
           /\ includedLinks' = st1.links
    /\ UNCHANGED <<nbpc, nbLinks, centralNodeId, maxDistance,
                   storeVars, panelVars, commuteVars, viewVars, normVars, layoutVars, queryVars, driverVars, expandVars>>

\* queryProcessor.ts:140-146
NbReturn ==
    /\ nbpc = "loop"
    /\ nodesToProcess = <<>>
    /\ nbpc' = "done"
    /\ UNCHANGED <<nbLinks, centralNodeId, maxDistance, includedNodeIds,
                   nodesToProcess, includedLinks,
                   storeVars, panelVars, commuteVars, viewVars, normVars, layoutVars, queryVars, driverVars, expandVars>>

NextNeighbor == NbEnter \/ NbStep \/ NbReturn

SpecNeighbor == InitNeighbor /\ [][NextNeighbor]_vars

\* queryProcessor.ts:141  the returned node list
filteredNodes == SelectSeq(nbNodes, LAMBDA id : id \in includedNodeIds)

\* Nodes at most k hops from c in the undirected projection of the links.
RECURSIVE WithinHops(_, _)
WithinHops(c, k) ==
    IF k = 0 THEN {c}
    ELSE LET S == WithinHops(c, k - 1)
         IN  S \cup { n \in Range(nbNodes) :
                        \E i \in 1..Len(nbLinks) :
                            \/ nbLinks[i].source \in S /\ nbLinks[i].target = n
                            \/ nbLinks[i].target \in S /\ nbLinks[i].source = n }

\* C9: the view holds every link between two of its nodes, links between two
\* nodes at hop r included; the triangle A-B, B-C, A-C at radius 1 gives all
\* three nodes and all three links.
C9_CrossLinksIncluded ==
    nbpc = "done" =>
        \A i \in 1..Len(nbLinks) :
            (/\ nbLinks[i].source # nbLinks[i].target
             /\ nbLinks[i].source \in Range(filteredNodes)
             /\ nbLinks[i].target \in Range(filteredNodes))
            => nbLinks[i] \in Range(includedLinks)

\* C10: the returned nodes are exactly those at most maxDistance hops from the
\* center; at radius 0 the view is the center alone, without links.
C10_NodesWithinRadius ==
    nbpc = "done" =>
        /\ Range(filteredNodes) = WithinHops(centralNodeId, maxDistance)
        /\ (maxDistance = 0 =>
               (filteredNodes = <<centralNodeId>> /\ includedLinks = <<>>))

\* A node at hop 1 is returned and a node at hop 2 is left out.
C10_Witness ==
    /\ nbpc = "done"
    /\ maxDistance = 1
    /\ Cardinality(includedNodeIds) = 2
    /\ WithinHops(centralNodeId, 2) = Range(nbNodes)

---------------------------------------------------------------------------
(* SpecView: the derived views of queryProcessor.ts and the collapse of    *)
(* GraphVisualization/types.ts, each applied once to a drawn graph         *)

MaxQLinks   == 4
MaxMissing  == 1

\* node ids; nodes are written by their id
qIds == <<"A", "B", "C", "D">>

QLinkVals ==
    { [source |-> "A", target |-> "B", label |-> "REL"],
      [source |-> "B", target |-> "D", label |-> "REL"],
      [source |-> "A", target |-> "C", label |-> "REL"],
      [source |-> "C", target |-> "D", label |-> "REL"],
      [source |-> "D", target |-> "A", label |-> "REL"],
      [source |-> "C", target |-> "B", label |-> "OTHER"] }

QLabels == {"REL", "OTHER"}

\* link lists that hold each link object once
QLinkSeqs ==
    { ls \in SeqsUpTo(QLinkVals, MaxQLinks) :
        \A i, j \in 1..Len(ls) : ls[i] = ls[j] => i = j }

\* node lists: the ids in order, at most MaxMissing of them left out
QNodeSeqs ==
    { SelectSeq(qIds, LAMBDA id : id \notin out) :
        out \in { o \in SUBSET Range(qIds) : Cardinality(o) <= MaxMissing } }

QGraphs == { [nodes |-> ns, links |-> ls] : ns \in QNodeSeqs, ls \in QLinkSeqs }

\* queryProcessor.ts:109-138  the while loop
RECURSIVE EntityLoop(_, _, _)
EntityLoop(links, maxDist, st) ==
    IF st.queue = <<>> THEN st
    ELSE
        LET currentNodeId == Head(st.queue)[1]
            distance      == Head(st.queue)[2]
            st0 == [st EXCEPT !.queue = Tail(st.queue)]
        IN  EntityLoop(links, maxDist,
                IF Expandable(distance, maxDist)
                THEN ScanLinksOf(links, 1, currentNodeId, distance, st0)
                ELSE st0)

\* queryProcessor.ts:103-147
filterGraphByEntity(g, center, maxDist) ==
    LET st == EntityLoop(g.links, maxDist,
                  [included |-> {center},
                   queue    |-> <<(<<center, 0>>)>>,
                   links    |-> <<>>])
    IN  [nodes |-> SelectSeq(g.nodes, LAMBDA id : id \in st.included),
         links |-> st.links]

\* queryProcessor.ts:150-171  entityId = "-" stands for no entity given
filterGraphByRelationship(g, relationshipType, entityId) ==
    LET matches(link) ==
            /\ link.label = relationshipType
            /\ (entityId = "-" \/ link.source = entityId \/ link.target = entityId)
        kept == SelectSeq(g.links, matches)
        ids  == {kept[i].source : i \in 1..Len(kept)}
                    \cup {kept[i].target : i \in 1..Len(kept)}
    IN  [nodes |-> SelectSeq(g.nodes, LAMBDA id : id \in ids),
         links |-> kept]

\* The links followed from source to target only.
RECURSIVE adjacencyList_Directed(_, _)
adjacencyList_Directed(links, n) ==
    IF links = <<>> THEN <<>>
    ELSE (IF Head(links).source = n THEN <<Head(links).target>> ELSE <<>>)
             \o adjacencyList_Directed(Tail(links), n)

\* The adjacency list read from the last link to the first.
RECURSIVE adjacencyList_Reversed(_, _)
adjacencyList_Reversed(links, n) ==
    IF links = <<>> THEN <<>>
    ELSE LET link == Head(links)
         IN  adjacencyList_Reversed(Tail(links), n)
                 \o (IF link.target = n THEN <<link.source>> ELSE <<>>)
                 \o (IF link.source = n THEN <<link.target>> ELSE <<>>)

\* queryProcessor.ts:176-188  adjacencyList.get(n), empty when n has no entry
RECURSIVE adjacencyList(_, _)
adjacencyList(links, n) ==
    IF links = <<>> THEN <<>>
    ELSE LET link == Head(links)
         IN  (IF link.source = n THEN <<link.target>> ELSE <<>>)
                 \o (IF link.target = n THEN <<link.source>> ELSE <<>>)
                 \o adjacencyList(Tail(links), n)

\* New paths go to the front of the queue: the search becomes depth first.
Enqueue_Front(queue, path) == <<path>> \o queue

\* queryProcessor.ts:231  queue.push
Enqueue(queue, path) == Append(queue, path)

\* queryProcessor.ts:228-233  the loop over the neighbors, from neighbor i on
RECURSIVE VisitNeighbors(_, _, _, _)
VisitNeighbors(neighbors, i, path, st) ==
    IF i > Len(neighbors) THEN st
    ELSE VisitNeighbors(neighbors, i + 1, path,
             IF neighbors[i] \notin st.visited
             THEN [visited |-> st.visited \cup {neighbors[i]},
                   queue   |-> Enqueue(st.queue, Append(path, neighbors[i]))]
             ELSE st)

\* queryProcessor.ts:194-234  the while loop; the path found, <<>> when the
\* queue runs empty
RECURSIVE SearchPath(_, _, _)
SearchPath(links, targetId, st) ==
    IF st.queue = <<>> THEN <<>>
    ELSE
        LET path        == Head(st.queue)
            currentNode == path[Len(path)]
            st0         == [st EXCEPT !.queue = Tail(st.queue)]
        IN  IF currentNode = targetId THEN path
            ELSE SearchPath(links, targetId,
                     VisitNeighbors(adjacencyList(links, currentNode), 1, path, st0))

\* queryProcessor.ts:208-211  graphData.links.find
Joins(l, a, b) ==
    \/ l.source = a /\ l.target = b
    \/ l.source = b /\ l.target = a

\* queryProcessor.ts:204-216
RECURSIVE PathLinks(_, _, _)
PathLinks(links, path, i) ==
    IF i > Len(path) - 1 THEN <<>>
    ELSE LET found == { k \in 1..Len(links) : Joins(links[k], path[i], path[i + 1]) }
             first == CHOOSE k \in found : \A m \in found : k <= m
         IN  (IF found # {} THEN <<links[first]>> ELSE <<>>)
                 \o PathLinks(links, path, i + 1)

\* The view of a failed search holding every node of the graph.
NoPathView_AllNodes(g, sourceId, targetId) ==
    [nodes |-> g.nodes, links |-> <<>>]

\* queryProcessor.ts:236-243
NoPathView(g, sourceId, targetId) ==
    [nodes |-> SelectSeq(g.nodes, LAMBDA id : id \in {sourceId, targetId}),
     links |-> <<>>]

\* queryProcessor.ts:174-244
findPathBetweenEntities(g, sourceId, targetId) ==
    LET path == SearchPath(g.links, targetId,
                    [visited |-> {sourceId}, queue |-> <<(<<sourceId>>)>>])
    IN  IF path # <<>>
        THEN [nodes |-> SelectSeq(g.nodes, LAMBDA id : id \in Range(path)),
              links |-> PathLinks(g.links, path, 1)]
        ELSE NoPathView(g, sourceId, targetId)

\* The graph as the renderer holds it: endpoints are ids, or node objects once
\* the renderer has resolved them (types.ts:15-16).
Rendered(g, resolved) ==
    [nodes |-> g.nodes,
     links |-> [i \in 1..Len(g.links) |->
                   IF resolved
                   THEN Link(ObjEnd(g.links[i].source), ObjEnd(g.links[i].target),
                             g.links[i].label)
                   ELSE Link(StrEnd(g.links[i].source), StrEnd(g.links[i].target),
                             g.links[i].label)]]

\* The links followed both ways: the parents of a node count as its children.
RECURSIVE connectionsMap_Undirected(_, _)
connectionsMap_Undirected(links, nodeId) ==
    IF links = <<>> THEN <<>>
    ELSE (IF Head(links).source.id = nodeId THEN <<Head(links).target.id>> ELSE <<>>)
             \o (IF Head(links).target.id = nodeId THEN <<Head(links).source.id>> ELSE <<>>)
             \o connectionsMap_Undirected(Tail(links), nodeId)

\* types.ts:47-58, 70  connectionsMap.get(nodeId) || []
RECURSIVE connectionsMap(_, _)
connectionsMap(links, nodeId) ==
    IF links = <<>> THEN <<>>
    ELSE (IF Head(links).source.id = nodeId THEN <<Head(links).target.id>> ELSE <<>>)
             \o connectionsMap(Tail(links), nodeId)

\* types.ts:64-78  st holds the descendants set, in insertion order, and the
\* visited set shared by the whole recursion
RECURSIVE findChildren(_, _, _)
RECURSIVE ForEachChild(_, _, _, _)
findChildren(links, nodeId, st) ==
    IF nodeId \in st.visited THEN st
    ELSE ForEachChild(links, connectionsMap(links, nodeId), 1,
                      [st EXCEPT !.visited = st.visited \cup {nodeId}])

\* types.ts:73-77
ForEachChild(links, children, i, st) ==
    IF i > Len(children) THEN st
    ELSE LET childId == children[i]
             st1 == IF childId \in Range(st.descendants) THEN st
                    ELSE [st EXCEPT !.descendants = Append(st.descendants, childId)]
         IN  ForEachChild(links, children, i + 1, findChildren(links, childId, st1))

\* types.ts:42-84
findDescendantNodes(parentId, g) ==
    findChildren(g.links, parentId, [descendants |-> <<>>, visited |-> {}]).descendants

\* The collapsed node removed together with its descendants.
RemovedIds_WithNode(nodeId, descendantIds) == Range(descendantIds) \cup {nodeId}

\* types.ts:128, 136  descendantIds.includes
RemovedIds(nodeId, descendantIds) == Range(descendantIds)

\* types.ts:87-157  collapseNode: what updateGraphData receives, if called
collapseNode(nodeId, hasRef, currentData) ==
    LET descendantIds == findDescendantNodes(nodeId, currentData)
        removed       == RemovedIds(nodeId, descendantIds)
    IN  IF ~hasRef \/ Len(descendantIds) = 0
        THEN [called |-> FALSE, data |-> [nodes |-> <<>>, links |-> <<>>]]
        ELSE [called |-> TRUE,
              data   |-> [nodes |-> SelectSeq(currentData.nodes,
                                        LAMBDA id : id \notin removed),
                          links |-> SelectSeq(currentData.links,
                                        LAMBDA link : link.source.id \notin removed
                                                      /\ link.target.id \notin removed)]]

Call(op, x, y, n, resolved, ref) ==
    [op |-> op, x |-> x, y |-> y, n |-> n, resolved |-> resolved, ref |-> ref]

InitView ==
    /\ StoreInit /\ PanelIdle /\ CommuteIdle /\ NbIdle /\ NormalizeIdle /\ LayoutIdle /\ QueryIdle /\ DriverIdle /\ ExpandIdle
    /\ qGraph \in QGraphs
    /\ qCall = NoCall
    /\ qView = [nodes |-> <<>>, links |-> <<>>]
    /\ qDescendants = <<>>
    /\ qUpdate = [called |-> FALSE, data |-> [nodes |-> <<>>, links |-> <<>>]]

\* part of processQuery: filterGraphByEntity(graphData, id, radius)
ViewEntity ==
    /\ qCall.op = "none"
    /\ \E center \in Range(qIds), r \in 0..MaxRadius :
           /\ qCall' = Call("entity", center, "-", r, FALSE, FALSE)
           /\ qView' = filterGraphByEntity(qGraph, center, r)
    /\ UNCHANGED <<qGraph, qDescendants, qUpdate,
                   storeVars, panelVars, commuteVars, nbVars, normVars, layoutVars, queryVars, driverVars, expandVars>>

ViewRelationship ==
    /\ qCall.op = "none"
    /\ \E label \in QLabels, entityId \in Range(qIds) \cup {"-"} :
           /\ qCall' = Call("relationship", label, entityId, 0, FALSE, FALSE)
           /\ qView' = filterGraphByRelationship(qGraph, label, entityId)
    /\ UNCHANGED <<qGraph, qDescendants, qUpdate,
                   storeVars, panelVars, commuteVars, nbVars, normVars, layoutVars, queryVars, driverVars, expandVars>>

ViewPath ==
    /\ qCall.op = "none"
    /\ \E sourceId \in Range(qIds), targetId \in Range(qIds) :
           /\ qCall' = Call("path", sourceId, targetId, 0, FALSE, FALSE)
           /\ qView' = findPathBetweenEntities(qGraph, sourceId, targetId)
    /\ UNCHANGED <<qGraph, qDescendants, qUpdate,
                   storeVars, panelVars, commuteVars, nbVars, normVars, layoutVars, queryVars, driverVars, expandVars>>

ViewDescendants ==
    /\ qCall.op = "none"
    /\ \E parentId \in Range(qIds), resolved \in BOOLEAN :
           /\ qCall' = Call("descendants", parentId, "-", 0, resolved, FALSE)
           /\ qDescendants' = findDescendantNodes(parentId, Rendered(qGraph, resolved))
    /\ UNCHANGED <<qGraph, qView, qUpdate,
                   storeVars, panelVars, commuteVars, nbVars, normVars, layoutVars, queryVars, driverVars, expandVars>>

ViewCollapse ==
    /\ qCall.op = "none"
    /\ \E nodeId \in Range(qGraph.nodes), resolved \in BOOLEAN, hasRef \in BOOLEAN :
           /\ qCall' = Call("collapse", nodeId, "-", 0, resolved, hasRef)
           /\ qUpdate' = collapseNode(nodeId, hasRef, Rendered(qGraph, resolved))
    /\ UNCHANGED <<qGraph, qView, qDescendants,
                   storeVars, panelVars, commuteVars, nbVars, normVars, layoutVars, queryVars, driverVars, expandVars>>

NextView ==
    ViewEntity \/ ViewRelationship \/ ViewPath \/ ViewDescendants \/ ViewCollapse

SpecView == InitView /\ [][NextView]_vars

---------------------------------------------------------------------------
(* Claims about the derived views *)

\* ids at most k hops from the ids of S, the links taken in both directions
RECURSIVE HopsFrom(_, _, _)
HopsFrom(links, S, k) ==
    IF k = 0 THEN S
    ELSE LET R == HopsFrom(links, S, k - 1)
         IN  R \cup { links[i].target : i \in { j \in 1..Len(links) : links[j].source \in R } }
               \cup { links[i].source : i \in { j \in 1..Len(links) : links[j].target \in R } }

Reachable(links, s, t) == t \in HopsFrom(links, {s}, Len(qIds))

\* minimum hop distance, for t reachable from s
HopDistance(links, s, t) ==
    CHOOSE k \in 0..Len(qIds) :
        /\ t \in HopsFrom(links, {s}, k)
        /\ \A m \in 0..Len(qIds) : t \in HopsFrom(links, {s}, m) => k <= m

\* the ids met when the links are followed one after the other from id from;
\* <<>> when a link does not continue from where the one before it ended
RECURSIVE WalkIds(_, _)
WalkIds(ls, from) ==
    IF ls = <<>> THEN <<from>>
    ELSE LET next == IF Head(ls).source = from THEN Head(ls).target
                     ELSE IF Head(ls).target = from THEN Head(ls).source
                     ELSE "none"
             rest == IF next = "none" THEN <<>> ELSE WalkIds(Tail(ls), next)
         IN  IF rest = <<>> THEN <<>> ELSE <<from>> \o rest

\* C11: every link of the view returned by filterGraphByEntity,
\* filterGraphByRelationship and findPathBetweenEntities has its source id and
\* its target id in the node list of that view, for every input graph.
C11_ViewsNoDanglingEdges ==
    qCall.op \in {"entity", "relationship", "path"} =>
        \A i \in 1..Len(qView.links) :
            /\ qView.links[i].source \in Range(qView.nodes)
            /\ qView.links[i].target \in Range(qView.nodes)

PathCall == qCall.op = "path"

\* C12: when the target is reachable from the source in the undirected
\* projection, the links returned by findPathBetweenEntities are links of the
\* graph that lead from the source to the target, their number is the minimum
\* hop distance, and the nodes returned are the nodes on that path, each once.
C12_ShortestPath ==
    (PathCall /\ Reachable(qGraph.links, qCall.x, qCall.y)) =>
        LET walk == WalkIds(qView.links, qCall.x)
        IN  /\ walk # <<>>
            /\ walk[Len(walk)] = qCall.y
            /\ Range(qView.links) \subseteq Range(qGraph.links)
            /\ Len(qView.links) = HopDistance(qGraph.links, qCall.x, qCall.y)
            /\ qView.nodes = SelectSeq(qGraph.nodes, LAMBDA id : id \in Range(walk))

\* A two-link path is returned from a graph that also joins the two ends by a
\* longer way round.
C12_Witness ==
    /\ PathCall
    /\ Len(qView.links) = 2
    /\ Len(qView.nodes) = 3
    /\ Len(qGraph.links) = 4
    /\ \A id \in Range(qIds) : Reachable(qGraph.links, qCall.x, id)

\* the id sequences of minimum length that lead from s to t along the links
ShortestPaths(links, s, t) ==
    LET d == HopDistance(links, s, t)
    IN  { p \in [1..(d + 1) -> Range(qIds)] :
            /\ p[1] = s
            /\ p[d + 1] = t
            /\ \A i \in 1..d : \E k \in 1..Len(links) : Joins(links[k], p[i], p[i + 1]) }

\* index of the first link that joins a and b: a node's neighbors are
\* enumerated in the order of the first link that leads to each
FirstJoin(links, a, b) ==
    CHOOSE k \in 1..Len(links) :
        Joins(links[k], a, b) /\ \A m \in 1..(k - 1) : ~Joins(links[m], a, b)

\* p leaves q at a neighbor that is enumerated earlier for the node before it
TakesEarlierNeighbor(links, p, q) ==
    \E i \in 2..Len(p) :
        /\ \A j \in 1..(i - 1) : p[j] = q[j]
        /\ p[i] # q[i]
        /\ FirstJoin(links, p[i - 1], p[i]) < FirstJoin(links, p[i - 1], q[i])

DiamondLinks ==
    << [source |-> "A", target |-> "B", label |-> "REL"],
       [source |-> "B", target |-> "D", label |-> "REL"],
       [source |-> "A", target |-> "C", label |-> "REL"],
       [source |-> "C", target |-> "D", label |-> "REL"] >>

\* C13: among several shortest paths findPathBetweenEntities returns the one
\* through the neighbor enumerated first in each node's adjacency list; for
\* the links A-B, B-D, A-C, C-D in that order the path from A to D is the
\* two-link path through B.
C13_TieBreakByInsertionOrder ==
    (PathCall /\ Reachable(qGraph.links, qCall.x, qCall.y)) =>
        LET walk == WalkIds(qView.links, qCall.x)
        IN  /\ walk \in ShortestPaths(qGraph.links, qCall.x, qCall.y)
            /\ \A q \in ShortestPaths(qGraph.links, qCall.x, qCall.y) :
                   q # walk => TakesEarlierNeighbor(qGraph.links, walk, q)
            /\ (qGraph.links = DiamondLinks /\ qCall.x = "A" /\ qCall.y = "D")
                   => qView.links = <<DiamondLinks[1], DiamondLinks[2]>>

\* The path from A to D has been asked of the diamond, all four nodes present.
C13_Witness ==
    /\ PathCall
    /\ qGraph.links = DiamondLinks
    /\ qGraph.nodes = qIds
    /\ qCall.x = "A" /\ qCall.y = "D"
    /\ qView.nodes = <<"A", "B", "D">>

\* C14: when the target is not reachable from the source,
\* findPathBetweenEntities returns no links and exactly the nodes of the two
\* endpoints that exist in the graph.
C14_NoPathView ==
    (PathCall /\ ~Reachable(qGraph.links, qCall.x, qCall.y)) =>
        /\ qView.links = <<>>
        /\ Range(qView.nodes) = {qCall.x, qCall.y} \cap Range(qGraph.nodes)
        /\ Len(qView.nodes) = Cardinality(Range(qView.nodes))

\* No path between two different ids of which one is not a node of the graph,
\* in a graph that has links.
C14_Witness ==
    /\ PathCall
    /\ ~Reachable(qGraph.links, qCall.x, qCall.y)
    /\ qGraph.links # <<>>
    /\ Len(qView.nodes) = 1
    /\ qCall.y \notin Range(qGraph.nodes)

\* ids reached from the ids of S by one to k links followed from source to
\* target
RECURSIVE ForwardFrom(_, _, _)
ForwardFrom(links, S, k) ==
    IF k = 0 THEN {}
    ELSE LET R == ForwardFrom(links, S, k - 1)
         IN  R \cup { links[i].target : i \in { j \in 1..Len(links) : links[j].source \in S \cup R } }

Descendants(links, root) == ForwardFrom(links, {root}, Len(links))

\* C15: findDescendantNodes returns exactly the ids reachable from the root by
\* one or more links followed from source to target, each id once; it returns
\* on graphs with directed cycles too.
C15_DescendantSet ==
    qCall.op = "descendants" =>
        /\ Range(qDescendants) = Descendants(qGraph.links, qCall.x)
        /\ Len(qDescendants) = Cardinality(Range(qDescendants))

\* The root lies on a directed cycle, so it is among its own descendants.
C15_Witness ==
    /\ qCall.op = "descendants"
    /\ qCall.x \in Range(qDescendants)
    /\ Len(qDescendants) >= 3

---------------------------------------------------------------------------
(* SpecNormalize: neo4jConnector.ts transformNeo4jToGraph, one record of   *)
(* the batch per step                                                      *)

MaxRecords == 3

\* Text is a sequence of characters.  A missing text (JavaScript undefined)
\* is the one-element sequence UndefText, which a template literal prints as
\* the text "undefined" and which no text of the model contains.
UndefText == <<UNDEF>>

\* !text
Falsy(t) == t = <<>> \/ t = UndefText

Category  == <<"C", "a", "t", "e", "g", "o", "r", "y">>
Unknown   == <<"U", "n", "k", "n", "o", "w", "n">>
RelatedTo == <<"R", "E", "L", "A", "T", "E", "D", "_", "T", "O">>

Capitals == {"A", "B", "C", "D", "M", "N", "R", "S", "T", "U"}
Digits   == {"0", "1", "2", "3", "4", "5", "6", "7", "8", "9"}

\* .replace(/\|/g, '-')
ReplacePipe(t) == [i \in 1..Len(t) |-> IF t[i] = "|" THEN "-" ELSE t[i]]

\* .replace(/_/g, ' ')
ReplaceUnderscore(t) == [i \in 1..Len(t) |-> IF t[i] = "_" THEN " " ELSE t[i]]

\* .replace(/([A-Z])/g, ' $1')
RECURSIVE SpaceCapitals(_)
SpaceCapitals(t) ==
    IF t = <<>> THEN <<>>
    ELSE (IF Head(t) \in Capitals THEN <<" ", Head(t)>> ELSE <<Head(t)>>)
             \o SpaceCapitals(Tail(t))

\* .trim()
RECURSIVE Trim(_)
Trim(t) ==
    IF t = <<>> THEN <<>>
    ELSE IF Head(t) = " " THEN Trim(Tail(t))
    ELSE IF t[Len(t)] = " " THEN Trim(SubSeq(t, 1, Len(t) - 1))
    ELSE t

\* .substring(0, 3)
ShortId(id) == SubSeq(id, 1, IF Len(id) < 3 THEN Len(id) ELSE 3)

\* /^\d+$/.test
AllDigits(t) == t # <<>> /\ \A i \in 1..Len(t) : t[i] \in Digits

\* node.properties; a property that is not set is UndefText
Props(type, name, title, id) ==
    [type |-> type, name |-> name, title |-> title, label |-> UndefText, id |-> id]

NoProps == Props(UndefText, UndefText, UndefText, UndefText)

\* neo4j.Node; hasLabels / hasProperties are FALSE when the field is missing
Entity(identity, hasLabels, labels, hasProperties, properties) ==
    [kind |-> "node", identity |-> identity,
     hasLabels |-> hasLabels, labels |-> labels,
     hasProperties |-> hasProperties, properties |-> properties]

\* neo4j.Relationship
Relationship(type) == [kind |-> "rel", type |-> type]

\* neo4j.Path, a sequence of segments [start, relationship, end]
Path(segments) == [kind |-> "path", segments |-> segments]

Segment(start, relationship, end) ==
    [start |-> start, relationship |-> relationship, end |-> end]

\* a field that holds null, and a field the record does not have
NullValue == [kind |-> "null"]
Absent    == [kind |-> "absent"]

\* neo4j.Record with the fields n, r, m, p in that order
Record(n, r, m, p) == [n |-> n, r |-> r, m |-> m, p |-> p]

Keys == <<"n", "r", "m", "p">>

Field(record, key) ==
    IF key = "n" THEN record.n
    ELSE IF key = "r" THEN record.r
    ELSE IF key = "m" THEN record.m
    ELSE record.p

\* neo4jConnector.ts:207-228  the node branch raises a TypeError on a missing
\* identity (207), on missing properties (212) and on missing labels (226)
NodeBranchThrows(node) ==
    node.identity = UndefText \/ ~node.hasProperties \/ ~node.hasLabels

\* neo4jConnector.ts:211-228
nodeType(node) ==
    LET labels == node.labels
        type0  == node.properties.type
        type1  == IF Falsy(type0) /\ Len(labels) > 0
                  THEN (IF Category \in Range(labels) THEN Category ELSE labels[1])
                  ELSE type0
    IN  IF Category \in Range(labels) THEN Category ELSE type1

\* neo4jConnector.ts:230-268, 372-410  the display label of a node with id
\* nodeId
nodeLabel(nodeId, labels, properties) ==
    LET fromProperties ==
            IF ~Falsy(properties.name) THEN ReplacePipe(properties.name)
            ELSE IF ~Falsy(properties.title) THEN ReplacePipe(properties.title)
            ELSE IF ~Falsy(properties.label) THEN ReplacePipe(properties.label)
            ELSE IF ~Falsy(properties.id) /\ ~AllDigits(properties.id)
            THEN Trim(SpaceCapitals(ReplacePipe(ReplaceUnderscore(properties.id))))
            ELSE <<>>
        withFallback ==
            IF Falsy(fromProperties) /\ Len(labels) > 0
            THEN Trim(ReplacePipe(SpaceCapitals(labels[1]))) \o <<" ">> \o ShortId(nodeId)
            ELSE IF Falsy(fromProperties)
            THEN <<"N", "o", "d", "e", " ">> \o ShortId(nodeId)
            ELSE fromProperties
    IN  ReplacePipe(withFallback)

\* nodes.has(nodeId)
HasNode(nodes, nodeId) == \E i \in 1..Len(nodes) : nodes[i].id = nodeId

\* neo4jConnector.ts:270-280, 349-358, 412-421  nodes.set unless present
SetNode(nodes, nodeId, label, type) ==
    IF HasNode(nodes, nodeId) THEN nodes
    ELSE Append(nodes, [id |-> nodeId, label |-> label, type |-> type])

\* [startId, endId].sort(): ids are digit texts, compared character by
\* character
DigitOrder == <<"0", "1", "2", "3", "4", "5", "6", "7", "8", "9">>
CharRank(c) == CHOOSE i \in 1..Len(DigitOrder) : DigitOrder[i] = c

RECURSIVE TextLess(_, _)
TextLess(a, b) ==
    IF b = <<>> THEN FALSE
    ELSE IF a = <<>> THEN TRUE
    ELSE IF Head(a) = Head(b) THEN TextLess(Tail(a), Tail(b))
    ELSE CharRank(Head(a)) < CharRank(Head(b))

\* neo4jConnector.ts:301-302, 434-435  the key of a link, type as the template
\* literal prints it
relLinkKey(startId, endId, type) ==
    LET nodeA == IF TextLess(endId, startId) THEN endId ELSE startId
        nodeB == IF TextLess(endId, startId) THEN startId ELSE endId
    IN  nodeA \o <<"-">> \o nodeB \o <<"-">> \o type

\* links.has(linkKey)
HasLink(links, key) == \E i \in 1..Len(links) : links[i].key = key

\* neo4jConnector.ts:305-314, 438-447  links.set unless present
SetLink(links, key, startId, endId, label) ==
    IF HasLink(links, key) THEN links
    ELSE Append(links, [key |-> key, source |-> startId, target |-> endId,
                        label |-> label])

\* neo4jConnector.ts:204-280  a field that holds a node
ProcessNode(st, node) ==
    IF NodeBranchThrows(node) THEN [st EXCEPT !.failed = TRUE]
    ELSE [st EXCEPT !.nodes =
              SetNode(st.nodes, node.identity,
                      nodeLabel(node.identity, node.labels, node.properties),
                      nodeType(node))]

\* sourceNode && sourceNode.identity
HasIdentity(value) == value.kind = "node" /\ value.identity # UndefText

\* neo4jConnector.ts:281-320  a field that holds a relationship; record.get
\* raises on a field the record does not have, which the catch of line 318
\* absorbs
ProcessRelationship(st, record, rel) ==
    IF record.n = Absent \/ record.m = Absent THEN st
    ELSE IF ~(HasIdentity(record.n) /\ HasIdentity(record.m)) THEN st
    ELSE LET startId == record.n.identity
             endId   == record.m.identity
             type    == IF Falsy(rel.type) THEN RelatedTo ELSE rel.type
         IN  [st EXCEPT !.links =
                  SetLink(st.links, relLinkKey(startId, endId, type),
                          startId, endId, ReplacePipe(type))]

\* neo4jConnector.ts:344-347, 367-370  the type of a node met in a path
pathNodeType(node) ==
    LET labels     == IF node.hasLabels THEN node.labels ELSE <<>>
        properties == IF node.hasProperties THEN node.properties ELSE NoProps
    IN  IF ~Falsy(properties.type) THEN properties.type
        ELSE IF Len(labels) > 0 THEN labels[1]
        ELSE Unknown

\* neo4jConnector.ts:352  the label of the start node of a segment
startNodeLabel(node) ==
    LET properties == IF node.hasProperties THEN node.properties ELSE NoProps
    IN  IF ~Falsy(properties.name) THEN properties.name
        ELSE IF ~Falsy(properties.title) THEN properties.title
        ELSE <<"N", "o", "d", "e", " ">> \o node.identity

\* neo4jConnector.ts:372-410  the label of the end node of a segment
endNodeLabel(node) ==
    nodeLabel(node.identity,
              IF node.hasLabels THEN node.labels ELSE <<>>,
              IF node.hasProperties THEN node.properties ELSE NoProps)

\* neo4jConnector.ts:423-450  the link of a segment; relationship.type.replace
\* raises on a missing type, which the catch of line 451 absorbs
SegmentLink(links, startNodeId, endNodeId, relationship) ==
    LET key == relLinkKey(startNodeId, endNodeId, relationship.type)
    IN  IF startNodeId = <<>> \/ endNodeId = <<>> THEN links
        ELSE IF HasLink(links, key) THEN links
        ELSE IF relationship.type = UndefText THEN links
        ELSE SetLink(links, key, startNodeId, endNodeId,
                     ReplacePipe(relationship.type))

\* neo4jConnector.ts:326-454  one segment of a path
ProcessSegment(st, segment) ==
    LET startNode == segment.start
        endNode   == segment.end
        nodes1    == SetNode(st.nodes, startNode.identity,
                             startNodeLabel(startNode), pathNodeType(startNode))
        nodes2    == SetNode(nodes1, endNode.identity,
                             endNodeLabel(endNode), pathNodeType(endNode))
    IN  IF startNode = NullValue \/ endNode = NullValue
               \/ segment.relationship = NullValue THEN st
        ELSE IF startNode.identity = UndefText THEN st
        ELSE IF endNode.identity = UndefText THEN [st EXCEPT !.nodes = nodes1]
        ELSE [st EXCEPT !.nodes = nodes2,
                        !.links = SegmentLink(st.links, startNode.identity,
                                              endNode.identity, segment.relationship)]

\* neo4jConnector.ts:321-454  a field that holds a path
RECURSIVE ProcessPath(_, _)
ProcessPath(st, segments) ==
    IF segments = <<>> THEN st
    ELSE ProcessPath(ProcessSegment(st, Head(segments)), Tail(segments))

\* neo4jConnector.ts:191-459  the callback of record.forEach for one field; a
\* null value is skipped, and nothing runs once an error is on its way to the
\* catch of line 461
ProcessField(st, record, key) ==
    LET value == Field(record, key)
    IN  IF st.failed \/ value = Absent \/ value = NullValue THEN st
        ELSE IF value.kind = "node" THEN ProcessNode(st, value)
        ELSE IF value.kind = "rel" THEN ProcessRelationship(st, record, value)
        ELSE ProcessPath(st, value.segments)

\* neo4jConnector.ts:187-460  the callback of records.forEach for one record
RECURSIVE ProcessFields(_, _, _)
ProcessFields(st, record, i) ==
    IF i > Len(Keys) THEN st
    ELSE ProcessFields(ProcessField(st, record, Keys[i]), record, i + 1)

ProcessRecord(st, record) == ProcessFields(st, record, 1)

Table  == <<"T", "a", "b", "l", "e">>
Column == <<"C", "o", "l", "u", "m", "n">>
Metric == <<"M", "e", "t", "r", "i", "c">>

\* the node entities of the batches
EntA      == Entity(<<"1">>, TRUE, <<Table>>, TRUE,
                    Props(UndefText, <<"a">>, UndefText, UndefText))
EntB      == Entity(<<"2">>, TRUE, <<Table>>, TRUE, NoProps)
EntC      == Entity(<<"3">>, TRUE, <<Table>>, TRUE,
                    Props(UndefText, UndefText, UndefText, <<"c", "_", "|", "D">>))
EntAPipe  == Entity(<<"1">>, TRUE, <<Table>>, TRUE,
                    Props(UndefText, <<"a", "|", "b">>, UndefText, UndefText))
EntBTyped == Entity(<<"2">>, TRUE, <<Table>>, TRUE,
                    Props(Metric, UndefText, UndefText, UndefText))
EntCTypedCategory ==
    Entity(<<"3">>, TRUE, <<Column, Category>>, TRUE,
           Props(Metric, UndefText, UndefText, UndefText))
EntCBare  == Entity(<<"3">>, TRUE, <<>>, TRUE, NoProps)
EntACategory == Entity(<<"1">>, TRUE, <<Column, Category>>, TRUE, NoProps)
EntBMalformed == Entity(<<"2">>, FALSE, <<>>, FALSE, NoProps)

RelR     == Relationship(<<"R">>)
RelPipe  == Relationship(<<"R", "|", "S">>)
RelDash  == Relationship(<<"R", "-", "S">>)
RelNoType == Relationship(UndefText)

NodeRecord(n) == Record(n, NullValue, NullValue, Absent)
RelRecord(n, r, m) == Record(n, r, m, Absent)
PathRecord(segments) == Record(Absent, Absent, Absent, Path(segments))

\* the three records of the path A-REL-B, B-REL-C, A-REL-C
ScenarioRecords ==
    << RelRecord(EntA, RelR, EntB), RelRecord(EntB, RelR, EntC),
       RelRecord(EntA, RelR, EntC) >>

RecordVals ==
    { NodeRecord(EntBTyped), NodeRecord(EntCTypedCategory), NodeRecord(EntCBare),
      NodeRecord(EntACategory), NodeRecord(EntBMalformed),
      RelRecord(EntA, RelR, EntB), RelRecord(EntB, RelR, EntC),
      RelRecord(EntA, RelR, EntC), RelRecord(EntB, RelR, EntA),
      RelRecord(EntA, RelPipe, EntB), RelRecord(EntA, RelDash, EntB),
      Record(EntA, RelR, Absent, Absent),
      PathRecord(<<Segment(EntAPipe, RelR, EntB)>>),
      PathRecord(<<Segment(EntB, RelR, EntAPipe)>>),
      PathRecord(<<Segment(EntB, RelR, EntA)>>),
      PathRecord(<<Segment(EntCBare, RelR, EntA)>>),
      PathRecord(<<Segment(EntACategory, RelNoType, EntB)>>),
      PathRecord(<<Segment(EntBMalformed, RelR, EntC)>>),
      PathRecord(<<Segment(EntA, RelR, EntB), Segment(EntB, RelR, EntC)>>) }

InitNormalize ==
    /\ StoreInit /\ PanelIdle /\ CommuteIdle /\ NbIdle /\ ViewIdle /\ LayoutIdle /\ QueryIdle /\ DriverIdle /\ ExpandIdle
    /\ records \in SeqsUpTo(RecordVals, MaxRecords)
    /\ recordIndex = 1
    /\ nodesMap = <<>>
    /\ linksMap = <<>>
    /\ failed = FALSE
    /\ normalized = [nodes |-> <<>>, links |-> <<>>]
    /\ normpc = "loop"

\* neo4jConnector.ts:187-460  records.forEach, one record
NormRecord ==
    /\ normpc = "loop" /\ ~failed /\ recordIndex <= Len(records)
    /\ LET st == ProcessRecord([nodes |-> nodesMap, links |-> linksMap, failed |-> FALSE],
                               records[recordIndex])
       IN  /\ nodesMap' = st.nodes
           /\ linksMap' = st.links
           /\ failed' = st.failed
    /\ recordIndex' = recordIndex + 1
    /\ UNCHANGED <<records, normalized, normpc,
                   storeVars, panelVars, commuteVars, nbVars, viewVars, layoutVars, queryVars, driverVars, expandVars>>

\* neo4jConnector.ts:461-465  the outer catch
NormCatch ==
    /\ normpc = "loop" /\ failed
    /\ normalized' = [nodes |-> <<>>, links |-> <<>>]
    /\ normpc' = "done"
    /\ UNCHANGED <<records, recordIndex, nodesMap, linksMap, failed,
                   storeVars, panelVars, commuteVars, nbVars, viewVars, layoutVars, queryVars, driverVars, expandVars>>

\* neo4jConnector.ts:467-471
NormReturn ==
    /\ normpc = "loop" /\ ~failed /\ recordIndex > Len(records)
    /\ normalized' =
           [nodes |-> nodesMap,
            links |-> [i \in 1..Len(linksMap) |->
                          [source |-> linksMap[i].source, target |-> linksMap[i].target,
                           label |-> linksMap[i].label]]]
    /\ normpc' = "done"
    /\ UNCHANGED <<records, recordIndex, nodesMap, linksMap, failed,
                   storeVars, panelVars, commuteVars, nbVars, viewVars, layoutVars, queryVars, driverVars, expandVars>>

NextNormalize == NormRecord \/ NormCatch \/ NormReturn

SpecNormalize == InitNormalize /\ [][NextNormalize]_vars

---------------------------------------------------------------------------
(* Claims about the normalizer *)

Returned == normpc = "done"

\* C17: transformNeo4jToGraph returns at most one node per node identity and
\* at most one link per unordered endpoint pair and relationship label,
\* whatever the order and direction of the records; the three records
\* A-REL-B, B-REL-C, A-REL-C give 3 nodes and 3 links.
C17_NormalizerDeduplicates ==
    Returned =>
        /\ \A i, j \in 1..Len(normalized.nodes) :
               normalized.nodes[i].id = normalized.nodes[j].id => i = j
        /\ \A i, j \in 1..Len(normalized.links) :
               (/\ {normalized.links[i].source, normalized.links[i].target}
                       = {normalized.links[j].source, normalized.links[j].target}
                /\ normalized.links[i].label = normalized.links[j].label)
               => i = j
        /\ records = ScenarioRecords =>
               Len(normalized.nodes) = 3 /\ Len(normalized.links) = 3

\* the node entities a record holds: its node fields and the ends of the
\* segments of its path
EntitiesOf(record) ==
    { v \in {record.n, record.m} : v.kind = "node" }
        \cup (IF record.p.kind = "path"
              THEN UNION { { v \in {record.p.segments[k].start, record.p.segments[k].end} :
                               v.kind = "node" } : k \in 1..Len(record.p.segments) }
              ELSE {})

BatchEntities == UNION { EntitiesOf(records[i]) : i \in 1..Len(records) }

\* the type by the priority of the claim: the type property, else Category if
\* among the labels, else the first label, else Unknown
TypeByPriority(entity) ==
    LET labels     == IF entity.hasLabels THEN entity.labels ELSE <<>>
        properties == IF entity.hasProperties THEN entity.properties ELSE NoProps
    IN  IF ~Falsy(properties.type) THEN properties.type
        ELSE IF Category \in Range(labels) THEN Category
        ELSE IF Len(labels) > 0 THEN labels[1]
        ELSE Unknown

\* C18: the type of every returned node is the one the priority gives for a
\* node entity of the batch with that identity: the type property, else
\* 'Category' if among the labels, else the first label, else 'Unknown'.
C18_TypePriority ==
    Returned =>
        \A i \in 1..Len(normalized.nodes) :
            \E entity \in BatchEntities :
                /\ entity.identity = normalized.nodes[i].id
                /\ normalized.nodes[i].type = TypeByPriority(entity)

\* C19: no node label and no link label returned by transformNeo4jToGraph
\* holds the separator character '|', whether the node was met as a record
\* field, as the start or as the end of a path segment.
C19_NoSeparatorInLabels ==
    Returned =>
        /\ \A i \in 1..Len(normalized.nodes) : "|" \notin Range(normalized.nodes[i].label)
        /\ \A i \in 1..Len(normalized.links) : "|" \notin Range(normalized.links[i].label)

\* a record without a malformed entity: every node it holds has identity,
\* labels and properties, and a relationship comes with both endpoint fields
WellFormedRecord(record) ==
    /\ \A entity \in EntitiesOf(record) :
           entity.identity # UndefText /\ entity.hasLabels /\ entity.hasProperties
    /\ record.r.kind = "rel" => (record.n.kind = "node" /\ record.m.kind = "node")
    /\ record.p.kind = "path" =>
           \A k \in 1..Len(record.p.segments) :
               record.p.segments[k].relationship.type # UndefText

\* C20: a malformed record does not abort the batch: every node and every link
\* of the other records is still returned.
C20_MalformedRecordSkipped ==
    Returned =>
        \A i \in 1..Len(records) :
            WellFormedRecord(records[i]) =>
                /\ \A entity \in EntitiesOf(records[i]) :
                       \E k \in 1..Len(normalized.nodes) :
                           normalized.nodes[k].id = entity.identity
                /\ records[i].r.kind = "rel" =>
                       \E k \in 1..Len(normalized.links) :
                           {normalized.links[k].source, normalized.links[k].target}
                               = {records[i].n.identity, records[i].m.identity}

---------------------------------------------------------------------------
(* SpecLayout: initializeTreeLayout and applyTreeLayout                    *)
(* (src/src/components/GraphVisualization/graphUtils.ts; resetLayout of    *)
(* GraphVisualization.tsx:635-760 is a copy of applyTreeLayout).  The      *)
(* graph is mounted (graphRef.current is set).  A coordinate is a record   *)
(* [def, v]: def = FALSE is a property the node does not have.  The canvas *)
(* sizes drawn make every division of the grid exact.                      *)

MaxLLinks  == 3   \* links of the laid out graph
MaxLayouts == 2   \* layout calls in one behaviour
MaxStack   == 6   \* nested positionChildren calls the engine's stack holds

NoCoord  == [def |-> FALSE, v |-> 0]
Coord(v) == [def |-> TRUE, v |-> v]

LNode(id, type, category, x, y) ==
    [id |-> id, type |-> type, category |-> category,
     x |-> x, y |-> y, fx |-> NoCoord, fy |-> NoCoord]

lIds == <<"A", "B", "C", "D">>

\* the kinds a node comes in: its type and properties.category
LKinds(i) ==
    CASE i = 1 -> {<<"Category", FALSE>>, <<"Table", FALSE>>, <<"Table", TRUE>>}
      [] i = 4 -> {<<"Table", FALSE>>, <<"Subcategory", FALSE>>}
      [] OTHER -> {<<"Category", FALSE>>, <<"Table", FALSE>>}

\* positions the simulation gave the nodes before the layout: none, or some
Earlier == {<<NoCoord, NoCoord>>, <<Coord(50), Coord(40)>>}

LNodeSeqs ==
    { [i \in 1..4 |-> LNode(lIds[i], k[i][1], k[i][2], e[1], e[2])] :
        k \in { f \in [1..4 -> {"Category", "Table", "Subcategory"} \X BOOLEAN] :
                  \A i \in 1..4 : f[i] \in LKinds(i) },
        e \in Earlier }

LLink(s, t) == [source |-> s, target |-> t]

LLinkVals == {LLink("A", "B"), LLink("A", "C"), LLink("B", "D"),
              LLink("C", "D"), LLink("D", "A")}

LLinkSeqs ==
    UNION { { s \in [1..n -> LLinkVals] :
                \A i, j \in 1..n : i # j => s[i] # s[j] } : n \in 0..MaxLLinks }

Canvases == {[width |-> 120, height |-> 600], [width |-> 240, height |-> 1200]}

\* graphUtils.ts:210-215 and 150-155
isCategory(node) == node.type = "Category" \/ node.category

categoryNodes(nodes) == SelectSeq(nodes, isCategory)

\* graphUtils.ts:221-224 (no label of the nodes drawn includes 'Sub')
fallbackNodes(nodes) == SelectSeq(nodes, LAMBDA node : node.type = "Subcategory")

\* graphUtils.ts:234-235: the place of the node nodeMap holds for id, 0 if none
nodeMap(nodes, id) ==
    IF \E i \in 1..Len(nodes) : nodes[i].id = id
    THEN CHOOSE i \in 1..Len(nodes) :
            /\ nodes[i].id = id
            /\ \A j \in (i + 1)..Len(nodes) : nodes[j].id # id
    ELSE 0

\* graphUtils.ts:238-249: childrenMap.get(parentId) || []
RECURSIVE childrenMap(_, _)
childrenMap(links, parentId) ==
    IF links = <<>> THEN <<>>
    ELSE LET rest == childrenMap(SubSeq(links, 1, Len(links) - 1), parentId)
             link == links[Len(links)]
         IN  IF link.source = parentId THEN Append(rest, link.target) ELSE rest

\* graphUtils.ts:252-255
ClearFixed(nodes) ==
    [i \in 1..Len(nodes) |-> [nodes[i] EXCEPT !.fx = NoCoord, !.fy = NoCoord]]

MinOf(a, b) == IF a <= b THEN a ELSE b

CeilSqrt(n) == CHOOSE k \in 0..n : k * k >= n /\ \A j \in 0..(k - 1) : j * j < n

\* graphUtils.ts:258-259 and 168-169
gridColumns(n) == MinOf(4, CeilSqrt(n))
gridRows(n) == (n + gridColumns(n) - 1) \div gridColumns(n)

\* graphUtils.ts:262 and 172
horizontalSpacing(dims, n) == dims.width \div (gridColumns(n) + 1)

\* graphUtils.ts:173
verticalSpacing_Initial(dims, n) == dims.height \div (gridRows(n) + 1)

\* graphUtils.ts:263
verticalSpacing(dims, n) == MinOf(300, dims.height \div (gridRows(n) + 1))

\* graphUtils.ts:266-273: the i-th category node (from 0) goes to its cell;
\* vs is the vertical spacing of the caller
RECURSIVE PlaceRoots(_, _, _, _, _)
PlaceRoots(nodes, roots, i, hs, vs) ==
    IF i > Len(roots) THEN nodes
    ELSE LET n   == Len(roots)
             col == (i - 1) % gridColumns(n)
             row == (i - 1) \div gridColumns(n)
             at  == nodeMap(nodes, roots[i].id)
         IN  PlaceRoots([nodes EXCEPT ![at].fx = Coord(hs * (col + 1)),
                                      ![at].fy = Coord(vs * (row + 1))],
                        roots, i + 1, hs, vs)

\* a || b || 0 on numbers: 0 and a missing property are falsy
OrZero(a, b) ==
    IF a.def /\ a.v # 0 THEN a.v ELSE IF b.def /\ b.v # 0 THEN b.v ELSE 0

\* graphUtils.ts:276-304.  st = [nodes, overflow]; a call nested deeper than
\* MaxStack ends the whole layout with a RangeError, the nodes as they are.
RECURSIVE positionChildren(_, _, _, _, _), PositionEach(_, _, _, _, _, _, _, _)
positionChildren(st, links, parentId, horizontalOffset, depth) ==
    IF depth > MaxStack THEN [st EXCEPT !.overflow = TRUE]
    ELSE LET children == childrenMap(links, parentId)
             parent   == nodeMap(st.nodes, parentId)
         IN  IF parent = 0 \/ children = <<>> THEN st
             ELSE PositionEach(st, links, children, 1,
                               OrZero(st.nodes[parent].fx, st.nodes[parent].x),
                               OrZero(st.nodes[parent].fy, st.nodes[parent].y),
                               horizontalOffset, depth)

PositionEach(st, links, children, i, parentX, parentY, horizontalOffset, depth) ==
    IF st.overflow \/ i > Len(children) THEN st
    ELSE LET child     == nodeMap(st.nodes, children[i])
             \* (i - (children.length - 1) / 2) * 120, i counted from 0
             xPosition == parentX + (2 * (i - 1) - (Len(children) - 1)) * 60
                                  + horizontalOffset
             yPosition == parentY + 200
         IN  IF child = 0
             THEN PositionEach(st, links, children, i + 1, parentX, parentY,
                               horizontalOffset, depth)
             ELSE PositionEach(
                    positionChildren(
                        [st EXCEPT !.nodes[child].fx = Coord(xPosition),
                                   !.nodes[child].fy = Coord(yPosition)],
                        links, children[i], xPosition - parentX, depth + 1),
                    links, children, i + 1, parentX, parentY,
                    horizontalOffset, depth)

\* graphUtils.ts:307-309
RECURSIVE ForEachCategory(_, _, _, _)
ForEachCategory(st, links, roots, i) ==
    IF st.overflow \/ i > Len(roots) THEN st
    ELSE ForEachCategory(positionChildren(st, links, roots[i].id, 0, 1),
                         links, roots, i + 1)

\* graphUtils.ts:204-312: what the call leaves in the nodes, and whether it
\* ended with a RangeError
applyTreeLayout(g, dims) ==
    LET roots == categoryNodes(g.nodes)
        n     == Len(roots)
    IN  IF n = 0 /\ Len(fallbackNodes(g.nodes)) > 0
        THEN [nodes |-> g.nodes, overflow |-> FALSE]
        ELSE IF n = 0
        THEN [nodes |-> ClearFixed(g.nodes), overflow |-> FALSE]
        ELSE ForEachCategory(
                [nodes |-> PlaceRoots(ClearFixed(g.nodes), roots, 1,
                                      horizontalSpacing(dims, n),
                                      verticalSpacing(dims, n)),
                 overflow |-> FALSE],
                g.links, roots, 1)

\* graphUtils.ts:183-185
MarkCategory(nodes) ==
    [i \in 1..Len(nodes) |->
        IF isCategory(nodes[i]) THEN [nodes[i] EXCEPT !.type = "Category"]
        ELSE nodes[i]]

\* graphUtils.ts:145-188
initializeTreeLayout(g, dims) ==
    LET roots == categoryNodes(g.nodes)
        n     == Len(roots)
    IN  IF n = 0 THEN g.nodes
        ELSE MarkCategory(PlaceRoots(g.nodes, roots, 1,
                                     horizontalSpacing(dims, n),
                                     verticalSpacing_Initial(dims, n)))

InitLayout ==
    /\ StoreInit /\ PanelIdle /\ CommuteIdle /\ NbIdle /\ ViewIdle /\ NormalizeIdle
    /\ QueryIdle /\ DriverIdle /\ ExpandIdle
    /\ layoutGraph \in [nodes : LNodeSeqs, links : LLinkSeqs]
    /\ dimensions \in Canvases
    /\ layoutBefore = <<>>
    /\ layoutOp = "none"
    /\ layoutOverflow = FALSE
    /\ layoutCalls = 0

\* graphUtils.ts:134-138: onNodeDragEnd pins the node where it was dropped
LayoutDragEnd ==
    /\ layoutCalls = 0
    /\ \A i \in 1..Len(layoutGraph.nodes) : ~layoutGraph.nodes[i].fx.def
    /\ \E i \in 1..Len(layoutGraph.nodes) :
          /\ layoutGraph.nodes[i].x.def
          /\ layoutGraph' = [layoutGraph EXCEPT
                                !.nodes[i].fx = layoutGraph.nodes[i].x,
                                !.nodes[i].fy = layoutGraph.nodes[i].y]
    /\ UNCHANGED <<dimensions, layoutBefore, layoutOp, layoutOverflow, layoutCalls,
                   storeVars, panelVars, commuteVars, nbVars, viewVars, normVars, queryVars, driverVars, expandVars>>

LayoutInitialize ==
    /\ layoutCalls = 0
    /\ layoutGraph' = [layoutGraph EXCEPT
                          !.nodes = initializeTreeLayout(layoutGraph, dimensions)]
    /\ layoutBefore' = layoutGraph.nodes
    /\ layoutOp' = "initializeTreeLayout"
    /\ layoutOverflow' = FALSE
    /\ layoutCalls' = layoutCalls + 1
    /\ UNCHANGED <<dimensions,
                   storeVars, panelVars, commuteVars, nbVars, viewVars, normVars, queryVars, driverVars, expandVars>>

LayoutApply ==
    /\ layoutCalls < MaxLayouts
    /\ LET r == applyTreeLayout(layoutGraph, dimensions)
       IN  /\ layoutGraph' = [layoutGraph EXCEPT !.nodes = r.nodes]
           /\ layoutOverflow' = r.overflow
    /\ layoutBefore' = layoutGraph.nodes
    /\ layoutOp' = "applyTreeLayout"
    /\ layoutCalls' = layoutCalls + 1
    /\ UNCHANGED <<dimensions,
                   storeVars, panelVars, commuteVars, nbVars, viewVars, normVars, queryVars, driverVars, expandVars>>

NextLayout == LayoutDragEnd \/ LayoutInitialize \/ LayoutApply

SpecLayout == InitLayout /\ [][NextLayout]_vars

---------------------------------------------------------------------------
(* Claims about the layout *)

Applied == layoutOp = "applyTreeLayout"

\* the pinned coordinates of the nodes, in order
Pins(nodes) == [i \in 1..Len(nodes) |-> <<nodes[i].fx, nodes[i].fy>>]

\* all four coordinates of the nodes, in order
Positions(nodes) ==
    [i \in 1..Len(nodes) |-> <<nodes[i].x, nodes[i].y, nodes[i].fx, nodes[i].fy>>]

\* the nodes with no x, y, fx or fy
Unplaced(nodes) ==
    [i \in 1..Len(nodes) |->
        [nodes[i] EXCEPT !.x = NoCoord, !.y = NoCoord,
                         !.fx = NoCoord, !.fy = NoCoord]]

RootIds(nodes) == {nodes[i].id : i \in {j \in 1..Len(nodes) : isCategory(nodes[j])}}

TargetsOf(links, ids) ==
    {links[i].target : i \in {j \in 1..Len(links) : links[j].source \in ids}}

RECURSIVE Below(_, _, _)
Below(links, ids, k) ==
    IF k = 0 THEN ids ELSE Below(links, ids \cup TargetsOf(links, ids), k - 1)

\* the ids the layout positions: the roots and all that links lead to from them
PositionedIds(g) == Below(g.links, RootIds(g.nodes), Len(g.nodes))

\* the links form a forest under the roots: no link leads to a root and no
\* node is the target of two links
IsForest(g) ==
    /\ \A i \in 1..Len(g.links) : g.links[i].target \notin RootIds(g.nodes)
    /\ \A i, j \in 1..Len(g.links) :
          i # j => g.links[i].target # g.links[j].target

NodeOf(nodes, id) == nodes[CHOOSE i \in 1..Len(nodes) : nodes[i].id = id]

\* C21: applyTreeLayout returns for every graph, also one where the links
\* from a root lead back to a node of the current branch
C21_LayoutReturns == Applied => ~layoutOverflow

\* C22: when no node has type 'Category' or category = true, a layout call
\* changes no node's x, y, fx or fy
C22_NoRootsNoOp ==
    (layoutOp # "none" /\ categoryNodes(layoutBefore) = <<>>)
        => Positions(layoutGraph.nodes) = Positions(layoutBefore)

\* C23: after applyTreeLayout on a tree, each child of a positioned parent
\* is pinned 200 below the parent, consecutive children are 120 apart in fx
\* and the midpoint of the children's fx is the parent's fx
C23_ChildrenCentered ==
    (Applied /\ ~layoutOverflow /\ RootIds(layoutBefore) # {}
        /\ IsForest([nodes |-> layoutBefore, links |-> layoutGraph.links]))
    => \A p \in PositionedIds(layoutGraph) :
          LET children == childrenMap(layoutGraph.links, p)
              n        == Len(children)
              parent   == NodeOf(layoutGraph.nodes, p)
              child(i) == NodeOf(layoutGraph.nodes, children[i])
          IN  n > 0 =>
                /\ \A i \in 1..n : child(i).fy = Coord(parent.fy.v + 200)
                /\ \A i \in 1..(n - 1) :
                      child(i + 1).fx.v = child(i).fx.v + 120
                /\ child(1).fx.v + child(n).fx.v = 2 * parent.fx.v

\* C24: with n >= 1 roots, when the layout finishes the i-th root (from 0)
\* is pinned at fx = (i mod columns + 1) * width / (columns + 1) and
\* fy = (floor(i / columns) + 1) * height / (rows + 1), with
\* columns = min(4, ceil(sqrt(n))) and rows = ceil(n / columns)
C24_RootGrid ==
    (layoutOp # "none" /\ ~layoutOverflow /\ categoryNodes(layoutBefore) # <<>>)
    => LET roots   == categoryNodes(layoutBefore)
           n       == Len(roots)
           columns == CHOOSE c \in 1..4 :
                         /\ (c = 4 \/ c * c >= n)
                         /\ (c - 1) * (c - 1) < n
           rows    == CHOOSE r \in 1..n :
                         r * columns >= n /\ (r - 1) * columns < n
       IN  \A i \in 0..(n - 1) :
              LET root == NodeOf(layoutGraph.nodes, roots[i + 1].id)
              IN  /\ root.fx.def /\ root.fy.def
                  /\ root.fx.v * (columns + 1)
                        = ((i % columns) + 1) * dimensions.width
                  /\ root.fy.v * (rows + 1)
                        = ((i \div columns) + 1) * dimensions.height

\* C25: the pins applyTreeLayout assigns depend on the node list, the types,
\* the links and the canvas only, not on earlier x, y, fx or fy, and a
\* second application in a row gives the pins of the first
C25_LayoutFromScratch ==
    (Applied /\ ~layoutOverflow /\ categoryNodes(layoutBefore) # <<>>)
    => LET g     == [nodes |-> layoutBefore, links |-> layoutGraph.links]
           bare  == [nodes |-> Unplaced(layoutBefore), links |-> layoutGraph.links]
           again == applyTreeLayout(layoutGraph, dimensions)
       IN  /\ Pins(layoutGraph.nodes) = Pins(applyTreeLayout(bare, dimensions).nodes)
           /\ Pins(again.nodes) = Pins(layoutGraph.nodes)

---------------------------------------------------------------------------
(* SpecQuery: processQuery of src/src/lib/queryProcessor.ts (the local     *)
(* dataset only) and processQuery of src/unnamed/part_005 (the QA proxy    *)
(* first, the local dataset when that fails).  A text is a sequence of     *)
(* one-character strings.  A view holds node objects of the dataset; the   *)
(* model writes them by their id.                                          *)

MaxQueryParts == 3   \* phrases a query is made of
MaxSampleLinks == 2  \* links of the sample dataset

\* the phrases the queries drawn are made of
ShowAll == <<"S", "h", "o", "w", " ", "a", "l", "l">>
AllConnections == <<"a", "l", "l", " ", "c", "o", "n", "n", "e", "c", "t", "i", "o", "n", "s">>
RelatedToPhrase == <<"r", "e", "l", "a", "t", "e", "d", " ", "t", "o">>
Connect == <<"c", "o", "n", "n", "e", "c", "t">>
CustomersWord == <<"C", "u", "s", "t", "o", "m", "e", "r", "s">>
OrdersWord == <<"o", "r", "d", "e", "r", "s">>
ProductsWord == <<"p", "r", "o", "d", "u", "c", "t", "s">>
About == <<"a", "b", "o", "u", "t">>

QueryParts ==
    {ShowAll, AllConnections, RelatedToPhrase, Connect, CustomersWord,
     OrdersWord, ProductsWord, About}

Space == <<" ">>

RECURSIVE JoinParts(_)
JoinParts(parts) ==
    IF parts = <<>> THEN <<>>
    ELSE IF Len(parts) = 1 THEN parts[1]
    ELSE parts[1] \o Space \o JoinParts(Tail(parts))

Queries == { JoinParts(parts) : parts \in SeqsUpTo(QueryParts, MaxQueryParts) }

\* labels and synonyms of the sample dataset
CustomersLabel == <<"C", "u", "s", "t", "o", "m", "e", "r", "s">>
CustomerSynonym == <<"c", "u", "s", "t", "o", "m", "e", "r">>
OrdersLabel == <<"O", "r", "d", "e", "r", "s">>
ItemsLabel == <<"I", "t", "e", "m", "s">>
ProductsSynonym == <<"P", "r", "o", "d", "u", "c", "t", "s">>
GuidelinesLabel == <<"C", "o", "n", "t", "e", "n", "t", " ", "G", "u", "i", "d", "e", "l", "i", "n", "e", "s">>

SNode(id, label, synonyms) == [id |-> id, label |-> label, synonyms |-> synonyms]

\* node.synonyms of a node that has none
NoSynonyms == <<>>

SampleNodes ==
    << SNode("customers_table", CustomersLabel, <<CustomerSynonym>>),
       SNode("orders_table", OrdersLabel, NoSynonyms),
       SNode("items_table", ItemsLabel, <<ProductsSynonym>>),
       SNode("content_guidelines", GuidelinesLabel, NoSynonyms) >>

SLink(s, t, l) == [source |-> s, target |-> t, label |-> l]

SampleLinkVals ==
    { SLink("customers_table", "orders_table", "RELATED_TO"),
      SLink("orders_table", "items_table", "CONTAINS"),
      SLink("items_table", "content_guidelines", "RELATED_TO"),
      SLink("content_guidelines", "customers_table", "CONTAINS") }

SampleLinkSeqs ==
    { ls \in SeqsUpTo(SampleLinkVals, MaxSampleLinks) :
        \A i, j \in 1..Len(ls) : ls[i] = ls[j] => i = j }

SampleGraphs == { [nodes |-> SampleNodes, links |-> ls] : ls \in SampleLinkSeqs }

\* the capitals of the texts drawn
LowerChar(c) ==
    CASE c = "C" -> "c" [] c = "G" -> "g" [] c = "I" -> "i" [] c = "O" -> "o"
      [] c = "P" -> "p" [] c = "S" -> "s" [] OTHER -> c

\* String.prototype.toLowerCase
toLowerCase(t) == [i \in 1..Len(t) |-> LowerChar(t[i])]

\* String.prototype.includes
includes(t, p) ==
    \E i \in 0..(Len(t) - Len(p)) : \A k \in 1..Len(p) : t[i + k] = p[k]

\* the literals of queryProcessor.ts:39, 46, 53
showAllPattern == <<"s", "h", "o", "w", " ", "a", "l", "l">>
allConnectionsPattern == <<"a", "l", "l", " ", "c", "o", "n", "n", "e", "c", "t", "i", "o", "n", "s">>
relatedToPattern == <<"r", "e", "l", "a", "t", "e", "d", " ", "t", "o">>
connectPattern == <<"c", "o", "n", "n", "e", "c", "t">>
connectionPattern == <<"c", "o", "n", "n", "e", "c", "t", "i", "o", "n">>

\* queryProcessor.ts:87-96: some synonym of the node is in the query
SynonymIncluded(lowercaseQuery, node) ==
    \E i \in 1..Len(node.synonyms) :
        includes(lowercaseQuery, toLowerCase(node.synonyms[i]))

\* queryProcessor.ts:77-100
RECURSIVE extractEntityFromQuery(_, _)
extractEntityFromQuery(lowercaseQuery, nodes) ==
    IF nodes = <<>> THEN <<>>
    ELSE LET node == Head(nodes)
         IN  (IF includes(lowercaseQuery, toLowerCase(node.label))
              THEN <<node.id>> ELSE <<>>)
             \o (IF SynonymIncluded(lowercaseQuery, node)
                 THEN <<node.id>> ELSE <<>>)
             \o extractEntityFromQuery(lowercaseQuery, Tail(nodes))

\* the dataset with its nodes written by id, as the view functions take it
ById(fullData) ==
    [nodes |-> [i \in 1..Len(fullData.nodes) |-> fullData.nodes[i].id],
     links |-> fullData.links]

\* queryProcessor.ts:36-73 and part_005:114-161, the same text but for the
\* id of the default center.  A rule that returns nothing falls through to
\* the default at 66-73, which extracts the same matches again.
resolveLocal(q, fullData, defaultCenterId) ==
    LET lowercaseQuery == toLowerCase(q)
        entityMatches  == extractEntityFromQuery(lowercaseQuery, fullData.nodes)
        g              == ById(fullData)
        byDefault      == IF Len(entityMatches) > 0
                          THEN filterGraphByEntity(g, entityMatches[1], 1)
                          ELSE filterGraphByEntity(g, defaultCenterId, 1)
    IN  IF includes(lowercaseQuery, allConnectionsPattern)
              \/ includes(lowercaseQuery, showAllPattern)
        THEN byDefault
        ELSE IF includes(lowercaseQuery, relatedToPattern)
        THEN IF Len(entityMatches) > 0
             THEN filterGraphByRelationship(g, "RELATED_TO", entityMatches[1])
             ELSE byDefault
        ELSE IF includes(lowercaseQuery, connectPattern)
                  \/ includes(lowercaseQuery, connectionPattern)
        THEN IF Len(entityMatches) >= 2
             THEN findPathBetweenEntities(g, entityMatches[1], entityMatches[2])
             ELSE byDefault
        ELSE byDefault

\* queryProcessor.ts:73 and part_005:156
ContentGuidelines == "content_guidelines"
CustomersTable == "customers_table"

\* what the body of a 2xx reply parses to: the fields the graph is built
\* from, present (truthy) or not; evidence is the number of its items
ApiData ==
    [answer : BOOLEAN, reasoning : BOOLEAN, evidence : 0..1, confidence : BOOLEAN]

\* what the fetch of /api/query comes to: it rejects (network error), or
\* gives a response with response.ok and a body
ApiReplies ==
    {[kind |-> "network"]}
      \cup {[kind |-> "response", ok |-> FALSE, body |-> b] :
                b \in {"error", "detail", "other", "text", "empty"}}
      \cup {[kind |-> "response", ok |-> TRUE, body |-> b] :
                b \in {"text", "empty", "null"}}
      \cup {[kind |-> "response", ok |-> TRUE, body |-> "data", data |-> d] :
                d \in ApiData}

\* part_005:33-105: the try block ends with a throw.  fetch rejects (35);
\* a response that is not ok throws at 52, 54, 61 or 68 whatever its body;
\* response.json() rejects on a body that is not JSON (71); data that is
\* falsy throws at 92.
Throws(reply) ==
    \/ reply.kind = "network"
    \/ reply.kind = "response" /\ ~reply.ok
    \/ reply.kind = "response" /\ reply.ok /\ reply.body \in {"text", "empty", "null"}

\* part_005:346-513, the ids of the nodes and the links built
constructGraphFromApiResponse(d) ==
    LET from == IF d.reasoning THEN "reasoning_node" ELSE "answer_node"
    IN  [nodes |-> <<"query_node">>
                    \o (IF d.answer THEN <<"answer_node">> ELSE <<>>)
                    \o (IF d.reasoning THEN <<"reasoning_node">> ELSE <<>>)
                    \o [i \in 1..d.evidence |-> "evidence_0"]
                    \o (IF d.confidence THEN <<"confidence_node">> ELSE <<>>),
         links |-> (IF d.answer
                    THEN <<SLink("query_node", "answer_node", "ANSWERED_BY")>>
                    ELSE <<>>)
                    \o (IF d.reasoning
                        THEN <<SLink("answer_node", "reasoning_node", "BECAUSE")>>
                        ELSE <<>>)
                    \o [i \in 1..d.evidence |->
                           SLink(from, "evidence_0", "SUPPORTED_BY")]
                    \o (IF d.confidence
                        THEN <<SLink("answer_node", "confidence_node",
                                     "HAS_CONFIDENCE")>>
                        ELSE <<>>)]

\* how a promise is fulfilled: the GraphData and its fromApi field
\* ("absent" when the object has none)
Fulfilled(view, fromApi) ==
    [state |-> "fulfilled", view |-> view, fromApi |-> fromApi]

\* The promise is rejected when the try block throws.
processQueryApi_Rejects(q, fullData, reply) ==
    IF Throws(reply)
    THEN [state |-> "rejected"]
    ELSE Fulfilled(constructGraphFromApiResponse(reply.data), "true")

\* part_005:26-163
processQueryApi(q, fullData, reply) ==
    IF Throws(reply)
    THEN Fulfilled(resolveLocal(q, fullData, CustomersTable), "false")
    ELSE Fulfilled(constructGraphFromApiResponse(reply.data), "true")

\* queryProcessor.ts:28-74
processQuery(q, fullData) ==
    Fulfilled(resolveLocal(q, fullData, ContentGuidelines), "absent")

InitQuery ==
    /\ StoreInit /\ PanelIdle /\ CommuteIdle /\ NbIdle /\ ViewIdle /\ NormalizeIdle
    /\ LayoutIdle /\ DriverIdle /\ ExpandIdle
    /\ queryText \in Queries
    /\ sampleData \in SampleGraphs
    /\ apiReply = [kind |-> "none"]
    /\ queryResult = [state |-> "pending"]

\* queryProcessor.ts:28-74
QueryLocal ==
    /\ queryResult.state = "pending"
    /\ queryResult' = processQuery(queryText, sampleData)
    /\ UNCHANGED <<queryText, sampleData, apiReply, storeVars, panelVars,
                   commuteVars, nbVars, viewVars, normVars, layoutVars, driverVars, expandVars>>

\* part_005:26-163
QueryApi ==
    /\ queryResult.state = "pending"
    /\ \E reply \in ApiReplies :
          /\ apiReply' = reply
          /\ queryResult' = processQueryApi(queryText, sampleData, reply)
    /\ UNCHANGED <<queryText, sampleData, storeVars, panelVars,
                   commuteVars, nbVars, viewVars, normVars, layoutVars, driverVars, expandVars>>

NextQuery == QueryLocal \/ QueryApi

SpecQuery == InitQuery /\ [][NextQuery]_vars

---------------------------------------------------------------------------
(* Claims about the intent resolver *)

\* the call went to the local dataset: processQuery of queryProcessor.ts, or
\* the one of part_005 after a failed call of the QA proxy
LocalCall == queryResult.state = "fulfilled" /\ apiReply.kind = "none"
FallbackCall == queryResult.state = "fulfilled" /\ queryResult.fromApi = "false"

\* the ids of the nodes whose label or one of whose synonyms is in the
\* lowercased query, in the order of the nodes, each node once
MatchedIds(q, nodes) ==
    LET lq == toLowerCase(q)
        matched(node) ==
            \/ includes(lq, toLowerCase(node.label))
            \/ \E i \in 1..Len(node.synonyms) :
                  includes(lq, toLowerCase(node.synonyms[i]))
        kept == SelectSeq(nodes, matched)
    IN  [i \in 1..Len(kept) |-> kept[i].id]

\* the rule of the claim, on matches m
Dispatch(q, fullData, m, defaultCenterId) ==
    LET lq == toLowerCase(q)
        g  == ById(fullData)
        neighborhood == IF Len(m) > 0 THEN filterGraphByEntity(g, m[1], 1)
                        ELSE filterGraphByEntity(g, defaultCenterId, 1)
    IN  CASE includes(lq, allConnectionsPattern) \/ includes(lq, showAllPattern)
               -> neighborhood
          [] OTHER ->
             CASE includes(lq, relatedToPattern)
                    -> IF Len(m) > 0
                       THEN filterGraphByRelationship(g, "RELATED_TO", m[1])
                       ELSE neighborhood
               [] OTHER ->
                  IF includes(lq, connectPattern) /\ Len(m) >= 2
                  THEN findPathBetweenEntities(g, m[1], m[2])
                  ELSE neighborhood

DefaultCenterId == IF LocalCall THEN ContentGuidelines ELSE CustomersTable

DispatchOnMatchList ==
    (LocalCall \/ FallbackCall)
        => queryResult.view
              = Dispatch(queryText, sampleData,
                         extractEntityFromQuery(toLowerCase(queryText),
                                                sampleData.nodes),
                         DefaultCenterId)

\* the call of the QA proxy failed: a network error, a status that is not
\* 2xx, or a body that is not JSON
QaFailed ==
    \/ apiReply.kind = "network"
    \/ apiReply.kind = "response" /\ ~apiReply.ok
    \/ apiReply.kind = "response" /\ apiReply.body \in {"text", "empty"}

\* C27: whenever the call to the QA proxy fails, processQuery does not
\* reject; it returns the view the local resolver computes for the same
\* query over the sample dataset, marked fromApi = false
C27_FallbackOnFailure ==
    (queryResult.state # "pending" /\ QaFailed)
        => /\ queryResult.state = "fulfilled"
           /\ queryResult.fromApi = "false"
           /\ queryResult.view = resolveLocal(queryText, sampleData, CustomersTable)

\* The proxy answered 500 and the caller got a neighborhood of the dataset.
C27_Witness ==
    /\ apiReply.kind = "response" /\ ~apiReply.ok /\ apiReply.body = "error"
    /\ queryResult.state = "fulfilled"
    /\ queryResult.fromApi = "false"
    /\ Len(queryResult.view.links) > 0

---------------------------------------------------------------------------
(* SpecDriver: initDriver, testConnection, closeDriver and runQuery of     *)
(* src/unnamed/part_003.  The calls are async: a worker is a call in       *)
(* progress, and what it waits for; other calls run while it waits.        *)

MaxTicks   == 5   \* steps of the clock in one behaviour
MaxWorkers == 2   \* calls in progress at a time

\* part_003:23
CONNECTION_THROTTLE_MS == 10000

\* Date.now() when the module is loaded, and the step of the clock
StartMs == 1000000
TickMs  == 5000

\* No attempt is throttled.
Throttled_Never(now, last) == FALSE

\* part_003:34
Throttled(now, last) == now - last < CONNECTION_THROTTLE_MS

\* part_003:25-55.  st = [driver, last, creations]; ctorThrows: neo4j.driver
\* throws (part_003:42).  The outcome is "existing", "created", "throttled"
\* or "failed"; the last two leave the function as an exception (53).
initDriver(st, now, ctorThrows) ==
    IF st.driver # 0
    THEN [st |-> st, outcome |-> "existing"]
    ELSE IF Throttled(now, st.last)
    THEN [st |-> st, outcome |-> "throttled"]
    ELSE IF ctorThrows
    THEN [st |-> [st EXCEPT !.last = now], outcome |-> "failed"]
    ELSE [st |-> [driver    |-> Len(st.creations) + 1,
                  last      |-> now,
                  creations |-> Append(st.creations, now)],
          outcome |-> "created"]

Threw(outcome) == outcome \in {"throttled", "failed"}

DriverState == [driver |-> driver, last |-> lastConnectionAttempt,
                creations |-> creations]

\* the time of the last creation, 0 when there was none
LastCreation(cs) == IF cs = <<>> THEN 0 ELSE cs[Len(cs)]

\* what an initDriver call found and did
InitRecord(r, st, now) ==
    [outcome       |-> r.outcome,
     at            |-> now,
     driverBefore  |-> st.driver,
     lastBefore    |-> st.last,
     createdBefore |-> LastCreation(st.creations),
     driverAfter   |-> r.st.driver,
     lastAfter     |-> r.st.last,
     made          |-> Len(r.st.creations) - Len(st.creations)]

\* the module state after an initDriver call
SetDriverState(r) ==
    /\ driver' = r.st.driver
    /\ lastConnectionAttempt' = r.st.last
    /\ creations' = r.st.creations
    /\ lastInit' = InitRecord(r, DriverState, nowMs)

Worker(op, at) == [op |-> op, at |-> at]

\* the worker at place i is done
Without(ws, i) == SubSeq(ws, 1, i - 1) \o SubSeq(ws, i + 1, Len(ws))

InitDriver ==
    /\ StoreInit /\ PanelIdle /\ CommuteIdle /\ NbIdle /\ ViewIdle /\ NormalizeIdle
    /\ LayoutIdle /\ QueryIdle /\ ExpandIdle
    /\ driver = 0
    /\ lastConnectionAttempt = 0
    /\ nowMs = StartMs
    /\ creations = <<>>
    /\ lastInit = [outcome |-> "none"]
    /\ workers = <<>>

Others == <<storeVars, panelVars, commuteVars, nbVars, viewVars, normVars,
            layoutVars, queryVars, expandVars>>

DriverTick ==
    /\ nowMs < StartMs + MaxTicks * TickMs
    /\ nowMs' = nowMs + TickMs
    /\ UNCHANGED <<driver, lastConnectionAttempt, creations, lastInit, workers>>
    /\ UNCHANGED Others

\* part_003:115-125, and 127-147 when initDriver throws: the message of the
\* error may name a connection, but there is no driver to discard
RunQueryCall ==
    /\ Len(workers) < MaxWorkers
    /\ \E ctorThrows \in BOOLEAN :
          LET r == initDriver(DriverState, nowMs, ctorThrows)
          IN  /\ SetDriverState(r)
              /\ workers' = IF Threw(r.outcome) THEN workers
                            ELSE Append(workers, Worker("runQuery", "run"))
    /\ UNCHANGED nowMs
    /\ UNCHANGED Others

\* part_003:125-126 and 148-157: session.run settles with the records, or
\* with an error whose message does not name a connection, or the driver is
\* gone already (132-147)
RunQueryReturn ==
    /\ \E i \in 1..Len(workers) :
          /\ workers[i] = Worker("runQuery", "run")
          /\ workers' = Without(workers, i)
    /\ UNCHANGED <<driver, lastConnectionAttempt, nowMs, creations, lastInit>>
    /\ UNCHANGED Others

\* part_003:127-139: session.run fails with a connection error and there is
\* a driver: the call waits for driver.close()
RunQueryConnectionError ==
    /\ driver # 0
    /\ \E i \in 1..Len(workers) :
          /\ workers[i] = Worker("runQuery", "run")
          /\ workers' = [workers EXCEPT ![i] = Worker("runQuery", "close")]
    /\ UNCHANGED <<driver, lastConnectionAttempt, nowMs, creations, lastInit>>
    /\ UNCHANGED Others

\* part_003:58-65, and 76-105 when initDriver throws
TestConnectionCall ==
    /\ Len(workers) < MaxWorkers
    /\ IF driver # 0
       THEN /\ workers' = Append(workers, Worker("testConnection", "verify"))
            /\ UNCHANGED <<driver, lastConnectionAttempt, creations, lastInit>>
       ELSE \E ctorThrows \in BOOLEAN :
               LET r == initDriver(DriverState, nowMs, ctorThrows)
               IN  /\ SetDriverState(r)
                   /\ workers' = IF Threw(r.outcome) THEN workers
                                 ELSE Append(workers,
                                             Worker("testConnection", "verify"))
    /\ UNCHANGED nowMs
    /\ UNCHANGED Others

\* part_003:65-75: verifyConnectivity succeeds; or it fails and the driver
\* is gone already (80)
TestConnectionReturn ==
    /\ \E i \in 1..Len(workers) :
          /\ workers[i] = Worker("testConnection", "verify")
          /\ workers' = Without(workers, i)
    /\ UNCHANGED <<driver, lastConnectionAttempt, nowMs, creations, lastInit>>
    /\ UNCHANGED Others

\* part_003:76-82: verifyConnectivity fails and there is a driver
TestConnectionError ==
    /\ driver # 0
    /\ \E i \in 1..Len(workers) :
          /\ workers[i] = Worker("testConnection", "verify")
          /\ workers' = [workers EXCEPT ![i] = Worker("testConnection", "close")]
    /\ UNCHANGED <<driver, lastConnectionAttempt, nowMs, creations, lastInit>>
    /\ UNCHANGED Others

\* part_003:108-110
CloseDriverCall ==
    /\ Len(workers) < MaxWorkers
    /\ driver # 0
    /\ workers' = Append(workers, Worker("closeDriver", "close"))
    /\ UNCHANGED <<driver, lastConnectionAttempt, nowMs, creations, lastInit>>
    /\ UNCHANGED Others

\* part_003:82-86, 111, 139-143: driver.close() settles, either way, and
\* the driver is dropped
DriverClosed ==
    /\ \E i \in 1..Len(workers) :
          /\ workers[i].at = "close"
          /\ workers' = Without(workers, i)
    /\ driver' = 0
    /\ UNCHANGED <<lastConnectionAttempt, nowMs, creations, lastInit>>
    /\ UNCHANGED Others

NextDriver ==
    \/ DriverTick
    \/ RunQueryCall \/ RunQueryReturn \/ RunQueryConnectionError
    \/ TestConnectionCall \/ TestConnectionReturn \/ TestConnectionError
    \/ CloseDriverCall \/ DriverClosed

SpecDriver == InitDriver /\ [][NextDriver]_vars

---------------------------------------------------------------------------
(* Claims about the connection throttle *)

\* C28: any two creations of a driver by initDriver are at least
\* CONNECTION_THROTTLE_MS apart; an initDriver call made with no live driver
\* less than that after the last creation raises the throttle error, creates
\* no driver and leaves lastConnectionAttempt unchanged, also after the
\* driver was discarded on an error in runQuery or testConnection
C28_ConnectionThrottle ==
    /\ \A i, j \in 1..Len(creations) :
          i < j => creations[j] - creations[i] >= CONNECTION_THROTTLE_MS
    /\ (/\ lastInit.outcome # "none"
        /\ lastInit.driverBefore = 0
        /\ lastInit.at - lastInit.createdBefore < CONNECTION_THROTTLE_MS)
       => /\ lastInit.outcome = "throttled"
          /\ lastInit.made = 0
          /\ lastInit.driverAfter = 0
          /\ lastInit.lastAfter = lastInit.lastBefore

\* Two drivers were created, the second was discarded, and the initDriver
\* call made 5 s after its creation was throttled.
C28_Witness ==
    /\ Len(creations) = 2
    /\ driver = 0
    /\ lastInit.outcome = "throttled"
    /\ lastInit.at - lastInit.createdBefore = TickMs

---------------------------------------------------------------------------
(* SpecExpand: handleNodeExpansion of src/unnamed/part_009 over the store. *)
(* A call waits for expandNode; other calls start and finish meanwhile.    *)

MaxExpansions == 2   \* handleNodeExpansion calls in one behaviour

\* nodes and links as transformNeo4jToGraph gives them: ids and endpoints
\* are strings; a node may come without a type
ExpNodeVals ==
    { Node("a", "Table"), Node("b", "Table"), Node("c", "Column"),
      Node("c", UNDEF) }

ExpLinkVals ==
    { Link(StrEnd("a"), StrEnd("b"), "X"), Link(StrEnd("b"), StrEnd("c"), "X") }

ExpNodeSeqs ==
    { ns \in SeqsUpTo(ExpNodeVals, MaxFragNodes) :
        \A i, j \in 1..Len(ns) : ns[i].id = ns[j].id => i = j }

\* what expandNode resolves to: a graph, or nothing
NoData == NullGraph
ExpandedData ==
    {NoData} \cup { Graph(ns, ls) : ns \in ExpNodeSeqs,
                                    ls \in SeqsUpTo(ExpLinkVals, 1) }

\* the graph on the screen when the first node is clicked
ShownGraphs ==
    { Graph(ns, ls) : ns \in ExpNodeSeqs \ {<<>>},
                      ls \in SeqsUpTo(ExpLinkVals
                                \cup {Link(ObjEnd("a"), ObjEnd("b"), "X")}, 1) }

\* part_009:67-92: a node the graph does not hold yet and that has no type
\* becomes a 'Subcategory' (its x and y are not part of the store's test)
positionExpandedNodes(expandedData, shown) ==
    [expandedData EXCEPT !.nodes =
        [i \in 1..Len(expandedData.nodes) |->
            IF expandedData.nodes[i].id \notin NodeIds(shown)
                  /\ expandedData.nodes[i].type = UNDEF
            THEN [expandedData.nodes[i] EXCEPT !.type = "Subcategory"]
            ELSE expandedData.nodes[i]]]

\* The graph as it was when the node was clicked.
currentData_AtClick(atClick, atCall) == atClick

\* store.ts:53: get().graphData, read when addNodesToGraph runs
currentData(atClick, atCall) == atCall

Expansion(at, seen) ==
    [at |-> at, expandedData |-> NoData, clickedAt |-> calls, seen |-> seen]

InitExpand ==
    /\ PanelIdle /\ CommuteIdle /\ NbIdle /\ ViewIdle /\ NormalizeIdle
    /\ LayoutIdle /\ QueryIdle /\ DriverIdle
    /\ graphData \in ShownGraphs
    /\ originalGraphData = graphData
    /\ lastF = NullGraph
    /\ prevData = NullGraph
    /\ calls = 0
    /\ threw = FALSE
    /\ expansions = <<>>
    /\ graphBefore = graphData

NotExpand == <<panelVars, commuteVars, nbVars, viewVars, normVars, layoutVars,
               queryVars, driverVars>>

\* part_009:6-29: the call runs up to await expandNode(node.id)
ExpandClick ==
    /\ Len(expansions) < MaxExpansions
    /\ expansions' = Append(expansions, Expansion("fetch", graphData))
    /\ UNCHANGED <<storeVars, graphBefore>>
    /\ UNCHANGED NotExpand

\* part_009:29-63: expandNode settles and the call runs to its end.  With
\* no data or no nodes nothing is added (42, 58); what addNodesToGraph
\* raises is caught and logged (61).
ExpandFetched ==
    \E i \in 1..Len(expansions) : \E data \in ExpandedData :
        /\ expansions[i].at = "fetch"
        /\ IF data.isNull \/ Len(data.nodes) = 0
           THEN /\ expansions' = [expansions EXCEPT ![i].at = "done",
                                                    ![i].expandedData = data]
                /\ UNCHANGED storeVars
           ELSE LET expandedData == positionExpandedNodes(data, graphData)
                    cur    == currentData(expansions[i].seen, graphData)
                    raised == AddThrows(cur, expandedData)
                    result == MergeResult(cur, expandedData)
                IN  /\ expansions' = [expansions EXCEPT
                                         ![i].at = "done",
                                         ![i].expandedData = expandedData]
                    /\ calls' = calls + 1
                    /\ lastF' = expandedData
                    /\ prevData' = graphData
                    /\ threw' = raised
                    /\ graphData' = IF raised THEN graphData ELSE result
                    /\ originalGraphData' =
                          IF raised THEN originalGraphData ELSE result
        /\ UNCHANGED graphBefore
        /\ UNCHANGED NotExpand

NextExpand == ExpandClick \/ ExpandFetched

SpecExpand == InitExpand /\ [][NextExpand]_vars

---------------------------------------------------------------------------
(* Claims about concurrent expansions *)

BothDone ==
    /\ Len(expansions) = 2
    /\ expansions[1].at = "done" /\ expansions[2].at = "done"

\* the second call was made while the first waited for its fetch
InFlightTogether == expansions[1].clickedAt = 0 /\ expansions[2].clickedAt = 0

\* C29: when two expansions are in flight at the same time, in every order
\* in which their fetches complete, after both have completed the store's
\* graph holds every node of the graph as it was before, every node of the
\* first fragment and every node of the second fragment
C29_NoLostUpdate ==
    (BothDone /\ InFlightTogether)
        => /\ \A n \in Range(graphBefore.nodes) : n \in Range(graphData.nodes)
           /\ NodeIds(expansions[1].expandedData) \subseteq NodeIds(graphData)
           /\ NodeIds(expansions[2].expandedData) \subseteq NodeIds(graphData)

\* The fetch of the second call completed first, and each fragment brought
\* a node the other did not.
C29_Witness ==
    /\ BothDone /\ InFlightTogether
    /\ lastF = expansions[1].expandedData
    /\ NodeIds(expansions[1].expandedData) \ NodeIds(graphBefore)
          # NodeIds(expansions[2].expandedData) \ NodeIds(graphBefore)
    /\ NodeIds(expansions[1].expandedData) \ NodeIds(graphBefore) # {}
    /\ NodeIds(expansions[2].expandedData) \ NodeIds(graphBefore) # {}
    /\ Len(graphData.nodes) = Len(graphBefore.nodes) + 2

---------------------------------------------------------------------------
(* Claims about collapse on cyclic graphs (SpecView) *)

\* C30: for every graph, also one with a directed cycle or a self-loop
\* through N, collapsing node N never removes N itself from the view
C30_CollapseKeepsNode ==
    (qCall.op = "collapse" /\ qUpdate.called)
        => qCall.x \in Range(qUpdate.data.nodes)

=============================================================================
